---- MODULE Spec2Model ----
(***************************************************************************)
(* A model of the two-player card-game rules engine: the entity model      *)
(* (cards, players, zones), the mana system, spell casting and the stack,  *)
(* triggers, combat, and the phase / priority state machine of GameState.  *)
(*                                                                         *)
(* The engine state is gathered in one record g (operator G below) and     *)
(* every method of the source is an operator from records to records, so   *)
(* that nested calls of the source (execute_action -> pass_priority ->     *)
(* _next_phase -> _enter_phase -> get_legal_actions -> ...) are nested     *)
(* operator applications.  A method's return value is left in g.ret.       *)
(***************************************************************************)
EXTENDS Integers, Sequences, FiniteSets, TLC

VARIABLES
    cards,              \* card id -> Card object (static definition and mutable state)
    players,            \* player index (0, 1) -> Player object
    phase,              \* GameState.phase
    turn_number,        \* GameState.turn_number
    active,             \* GameState.active_player_index
    priority,           \* GameState.priority_player_index
    stack,              \* GameState.stack: sequence of StackObject, top is the last
    game_over,          \* GameState.game_over
    winner,             \* GameState.winner: <<>> (None) or <<player index>>
    pending_triggers,   \* TriggerManager.pending_triggers
    attacks_declared,   \* ActionGenerator.attacks_declared_this_phase
    blocks_declared,    \* ActionGenerator.blocks_declared_this_phase
    exiled_by_source,   \* ExileTracker.exiled_by_source
    ret,                \* what the last call returned to the driver
    offered,            \* the last non-empty list the driver got from get_legal_actions
    last,               \* the call the driver made last (operation and arguments)
    setup,              \* what the game was set up with (deck sizes, lives, last turn)
    mulligan_counts,    \* MulliganSystem.mulligan_counts
    mulliganing_players, \* the players the mulligan phase still asks for a decision
    prompts,            \* how often the last call asked the prompt manager for targets
    phase_log,          \* the phase before the last call and each phase it assigned
    triggers_log        \* what the last call did with the queue of pending triggers

vars == <<cards, players, phase, turn_number, active, priority, stack, game_over,
          winner, pending_triggers, attacks_declared, blocks_declared,
          exiled_by_source, ret, offered, last, setup, mulligan_counts,
          mulliganing_players, prompts, phase_log, triggers_log>>

(***************************************************************************)
(* Bounds of the model.                                                    *)
(***************************************************************************)
MaxTurn == 2
MaxPool == 1
MaxGraveyard == 1

(***************************************************************************)
(* Program constants.                                                      *)
(***************************************************************************)
StartingLife == 20
MaxHandSize == 7

PlayerIds == {0, 1}

\* ---------------------------------------------------------------- helpers

Max(a, b) == IF a >= b THEN a ELSE b
Min(a, b) == IF a <= b THEN a ELSE b

InSeq(x, s) == \E i \in 1 .. Len(s) : s[i] = x

\* list.remove(x): drops the first occurrence
RECURSIVE RemoveFirst(_, _)
RemoveFirst(s, x) ==
    IF s = <<>> THEN <<>>
    ELSE IF Head(s) = x THEN Tail(s)
    ELSE <<Head(s)>> \o RemoveFirst(Tail(s), x)

\* ---------------------------------------------------------------- core types

Colors == <<"white", "blue", "black", "red", "green", "colorless">>
ColorSet == {Colors[i] : i \in 1 .. Len(Colors)}

Phase == <<"untap", "upkeep", "draw", "main1", "combat_begin", "declare_attackers",
           "declare_blockers", "combat_damage", "combat_end", "main2", "end", "cleanup">>

PhaseIndex(ph) == CHOOSE i \in 1 .. Len(Phase) : Phase[i] = ph

\* ---------------------------------------------------------------- mana system

ZeroCost == [generic |-> 0, white |-> 0, blue |-> 0, black |-> 0, red |-> 0,
             green |-> 0, colorless |-> 0]

Digits == {"0", "1", "2", "3", "4", "5", "6", "7", "8", "9"}

DigitValue(s) ==
    CASE s = "0" -> 0 [] s = "1" -> 1 [] s = "2" -> 2 [] s = "3" -> 3 [] s = "4" -> 4
      [] s = "5" -> 5 [] s = "6" -> 6 [] s = "7" -> 7 [] s = "8" -> 8 [] s = "9" -> 9

\* ManaCost.from_string, on the sequence of symbols between the braces
RECURSIVE from_string(_)
from_string(symbols) ==
    IF symbols = <<>> THEN ZeroCost
    ELSE LET cost == from_string(Tail(symbols))
             s == Head(symbols)
         IN  IF s \in Digits THEN [cost EXCEPT !.generic = @ + DigitValue(s)]
             ELSE IF s = "W" THEN [cost EXCEPT !.white = @ + 1]
             ELSE IF s = "U" THEN [cost EXCEPT !.blue = @ + 1]
             ELSE IF s = "B" THEN [cost EXCEPT !.black = @ + 1]
             ELSE IF s = "R" THEN [cost EXCEPT !.red = @ + 1]
             ELSE IF s = "G" THEN [cost EXCEPT !.green = @ + 1]
             ELSE IF s = "C" THEN [cost EXCEPT !.colorless = @ + 1]
             ELSE cost

total_cmc(cost) ==
    cost.generic + cost.white + cost.blue + cost.black + cost.red + cost.green
      + cost.colorless

EmptyPool == [c \in ColorSet |-> 0]

add_mana(pool, color) ==
    IF color \in DOMAIN pool THEN [pool EXCEPT ![color] = @ + 1] ELSE pool

remove_mana(pool, color, amount) ==
    IF color \notin DOMAIN pool THEN pool
    ELSE [pool EXCEPT ![color] = @ - Min(amount, pool[color])]

total_mana(pool) ==
    pool["white"] + pool["blue"] + pool["black"] + pool["red"] + pool["green"]
      + pool["colorless"]

can_pay_cost(pool, cost) ==
    IF cost.white > pool["white"] \/ cost.blue > pool["blue"]
         \/ cost.black > pool["black"] \/ cost.red > pool["red"]
         \/ cost.green > pool["green"] \/ cost.colorless > pool["colorless"]
    THEN FALSE
    ELSE LET colored_used == cost.white + cost.blue + cost.black + cost.red
                               + cost.green + cost.colorless
         IN  total_mana(pool) - colored_used >= cost.generic

\* the generic part of ManaPool.pay_cost: colours are emptied in dictionary order
RECURSIVE pay_generic(_, _, _)
pay_generic(pool, remaining_generic, i) ==
    IF i > Len(Colors) \/ remaining_generic <= 0 THEN pool
    ELSE LET removed == Min(remaining_generic, pool[Colors[i]])
         IN  pay_generic(remove_mana(pool, Colors[i], removed),
                         remaining_generic - removed, i + 1)

\* ManaPool.pay_cost: [ok, pool]
pay_cost(pool, cost) ==
    IF ~can_pay_cost(pool, cost) THEN [ok |-> FALSE, pool |-> pool]
    ELSE LET p1 == remove_mana(pool, "white", cost.white)
             p2 == remove_mana(p1, "blue", cost.blue)
             p3 == remove_mana(p2, "black", cost.black)
             p4 == remove_mana(p3, "red", cost.red)
             p5 == remove_mana(p4, "green", cost.green)
             p6 == remove_mana(p5, "colorless", cost.colorless)
         IN  [ok |-> TRUE, pool |-> pay_generic(p6, cost.generic, 1)]

empty_pool(pool) == [c \in DOMAIN pool |-> 0]

\* ---------------------------------------------------------------- card system

CounterKinds == {"+1/+1", "-1/-1"}
NoCounters == [k \in CounterKinds |-> 0]

\* the triggers a call put into the queue, the triggers whose effects it invoked,
\* the creatures its state-based check moved to a graveyard, all in order, and
\* the length of the queue at each start of the state-based check
NoTriggersLog == [enqueued |-> <<>>, run |-> <<>>, died |-> <<>>, at_sba |-> <<>>]

\* Ability(ability_type, trigger_condition, cost, effect); "" stands for None
Ability(ability_type, trigger_condition, cost, effect) ==
    [ability_type |-> ability_type, trigger_condition |-> trigger_condition,
     cost |-> cost, effect |-> effect]

create_etb_ability(effect) == Ability("triggered", "enters_battlefield", "", effect)
create_death_ability(effect) == Ability("triggered", "dies", "", effect)
create_tap_ability(effect) == Ability("activated", "", "T", effect)
create_sacrifice_ability(effect, additional_cost) ==
    Ability("activated", "", additional_cost, effect)

\* Card.__init__ followed by Player._setup_deck: a card of the deck of `owner`
Card(name, mana_cost, types, power, toughness, abilities, owner) ==
    [name |-> name, mana_cost |-> from_string(mana_cost), types |-> types,
     power |-> power, toughness |-> toughness, abilities |-> abilities,
     owner |-> owner, controller |-> owner, zone |-> "library",
     counters |-> NoCounters, is_tapped |-> FALSE, is_attacking |-> FALSE,
     is_blocking |-> FALSE, summoning_sick |-> TRUE,
     entered_turn |-> 0]    \* the turn in which the card last entered a battlefield

Plains(owner) ==
    Card("Plains", <<>>, {"land"}, 0, 0,
         <<create_tap_ability([fn |-> "add_mana", arg |-> "white"])>>, owner)

Island(owner) ==
    Card("Island", <<>>, {"land"}, 0, 0,
         <<create_tap_ability([fn |-> "add_mana", arg |-> "blue"])>>, owner)

\* a land none of the five basic names occurs in: Card(name, "", "Land", ...)
OtherLand(owner) == Card("Wastes", <<>>, {"land"}, 0, 0, <<>>, owner)

DockworkerDrone(owner) ==
    Card("Dockworker Drone", <<"1", "W">>, {"artifact", "creature"}, 1, 1,
         <<create_etb_ability([fn |-> "add_counters", arg |-> "+1/+1"]),
           create_death_ability([fn |-> "move_counters_on_death", arg |-> ""])>>, owner)

IllvoiGaleblade(owner) ==
    Card("Illvoi Galeblade", <<"U">>, {"creature"}, 1, 1,
         <<create_sacrifice_ability([fn |-> "sacrifice_draw", arg |-> ""], "{2}")>>, owner)

DualSunTechnique(owner) ==
    Card("Dual-Sun Technique", <<"1", "W">>, {"instant"}, 0, 0, <<>>, owner)

\* a card defined outside the engine: the function of its tap ability raises
FaultyRelic(owner) ==
    Card("Faulty Relic", <<"1">>, {"artifact"}, 0, 0,
         <<create_tap_ability([fn |-> "raise", arg |-> ""])>>, owner)

\* a card defined outside the engine with create_etb_counter_effect("-1/-1"): a
\* 1/1 creature that enters with a -1/-1 counter on it
BlightedRecruit(owner) ==
    Card("Blighted Recruit", <<"W">>, {"creature"}, 1, 1,
         <<create_etb_ability([fn |-> "add_counters", arg |-> "-1/-1"])>>, owner)

\* a card defined outside the engine: an instant whose resolve_spell raises
Misfire(owner) ==
    Card("Misfire", <<"W">>, {"instant"}, 0, 0, <<>>, owner)

\* a card defined outside the engine: when it enters, its effect hands the trigger
\* manager a "dies" event for the card itself, which is still on the battlefield;
\* its "dies" ability puts a +1/+1 counter on it
Doomsayer(owner) ==
    Card("Doomsayer", <<"W">>, {"creature"}, 1, 1,
         <<create_etb_ability([fn |-> "fire_dies", arg |-> ""]),
           create_death_ability([fn |-> "add_counters", arg |-> "+1/+1"])>>, owner)

BanishingLight(owner) ==
    Card("Banishing Light", <<"2", "W">>, {"enchantment"}, 0, 0, <<>>, owner)

has_type(card, card_type) == card_type \in card.types
is_creature(card) == has_type(card, "creature")
is_land(card) == has_type(card, "land")
is_spell(card) == ~is_land(card)

current_power(card) ==
    IF ~is_creature(card) THEN 0
    ELSE Max(0, card.power + card.counters["+1/+1"] - card.counters["-1/-1"])

current_toughness(card) ==
    IF ~is_creature(card) THEN 0
    ELSE Max(0, card.toughness + card.counters["+1/+1"] - card.counters["-1/-1"])

\* a can_attack that does not look at summoning sickness
can_attack_when_sick(card) ==
    is_creature(card) /\ card.zone = "battlefield" /\ ~card.is_tapped

can_attack(card) ==
    is_creature(card) /\ card.zone = "battlefield" /\ ~card.is_tapped
      /\ ~card.summoning_sick

add_counter(card, counter_type, amount) ==
    [card EXCEPT !.counters[counter_type] = @ + amount]

reset_for_turn(card) == [card EXCEPT !.summoning_sick = FALSE]

\* Card.enters_battlefield, in the turn given
card_enters_battlefield(card, turn) ==
    [card EXCEPT !.zone = "battlefield",
                 !.summoning_sick = IF is_creature(card) THEN TRUE ELSE @,
                 !.entered_turn = turn]

\* Card.leaves_battlefield
card_leaves_battlefield(card) ==
    [card EXCEPT !.is_tapped = FALSE, !.is_attacking = FALSE, !.is_blocking = FALSE,
                 !.summoning_sick = TRUE]

\* the basic land name that occurs in a land's name decides what it produces
LandColor(name) ==
    IF name = "Plains" THEN "white"
    ELSE IF name = "Island" THEN "blue"
    ELSE IF name = "Swamp" THEN "black"
    ELSE IF name = "Mountain" THEN "red"
    ELSE IF name = "Forest" THEN "green"
    ELSE "colorless"

\* ---------------------------------------------------------------- player system

Player ==
    [life |-> StartingLife, library |-> <<>>, hand |-> <<>>, battlefield |-> <<>>,
     graveyard |-> <<>>, exile |-> <<>>, mana_pool |-> EmptyPool,
     has_played_land_this_turn |-> FALSE, turn_count |-> 0]

get_creatures(g, p) ==
    SelectSeq(g.players[p].battlefield, LAMBDA c : is_creature(g.cards[c]))

get_lands(g, p) ==
    SelectSeq(g.players[p].battlefield, LAMBDA c : is_land(g.cards[c]))

get_attackers(g, p) ==
    SelectSeq(get_creatures(g, p), LAMBDA c : g.cards[c].is_attacking)

is_alive(g, p) == g.players[p].life > 0

draw_card(g, p) ==
    IF g.players[p].library = <<>>
    THEN [g EXCEPT !.players[p].life = 0, !.ret = "None"]
    ELSE LET card == Head(g.players[p].library)
         IN  [g EXCEPT !.players[p].library = Tail(@),
                       !.cards[card].zone = "hand",
                       !.players[p].hand = Append(@, card),
                       !.ret = "card"]

\* lose_life without the floor at zero
lose_life_unfloored(g, p, amount) == [g EXCEPT !.players[p].life = @ - amount]

lose_life(g, p, amount) ==
    [g EXCEPT !.players[p].life = IF @ - amount < 0 THEN 0 ELSE @ - amount]

play_land(g, p, land) ==
    IF ~InSeq(land, g.players[p].hand) \/ ~is_land(g.cards[land])
         \/ g.players[p].has_played_land_this_turn
    THEN [g EXCEPT !.ret = "False"]
    ELSE [g EXCEPT !.players[p].hand = RemoveFirst(@, land),
                   !.players[p].battlefield = Append(@, land),
                   !.cards[land] = card_enters_battlefield(@, g.turn_number),
                   !.players[p].has_played_land_this_turn = TRUE,
                   !.ret = "True"]

\* what the untapped lands of a list add to a pool-shaped count
RECURSIVE add_untapped_lands(_, _, _)
add_untapped_lands(g, lands, available) ==
    IF lands = <<>> THEN available
    ELSE LET land == g.cards[Head(lands)]
         IN  add_untapped_lands(g, Tail(lands),
                 IF ~land.is_tapped
                 THEN [available EXCEPT ![LandColor(land.name)] = @ + 1]
                 ELSE available)

get_available_mana_by_color(g, p) ==
    add_untapped_lands(g, get_lands(g, p), g.players[p].mana_pool)

\* a feasibility check without the colorless requirement
can_pay_mana_cost_five_colors(g, p, cost) ==
    LET available == add_untapped_lands(g, get_lands(g, p), g.players[p].mana_pool)
    IN  IF cost.white > available["white"] \/ cost.blue > available["blue"]
             \/ cost.black > available["black"] \/ cost.red > available["red"]
             \/ cost.green > available["green"]
        THEN FALSE
        ELSE (available["white"] - cost.white) + (available["blue"] - cost.blue)
               + (available["black"] - cost.black) + (available["red"] - cost.red)
               + (available["green"] - cost.green)
               + (available["colorless"] - cost.colorless) >= cost.generic

can_pay_mana_cost(g, p, cost) ==
    LET available == add_untapped_lands(g, get_lands(g, p), g.players[p].mana_pool)
    IN  IF cost.white > available["white"] \/ cost.blue > available["blue"]
             \/ cost.black > available["black"] \/ cost.red > available["red"]
             \/ cost.green > available["green"]
        THEN FALSE
        ELSE IF cost.colorless > 0 /\ cost.colorless > available["colorless"]
        THEN FALSE
        ELSE LET total_remaining ==
                     (available["white"] - cost.white) + (available["blue"] - cost.blue)
                       + (available["black"] - cost.black) + (available["red"] - cost.red)
                       + (available["green"] - cost.green)
                       + (available["colorless"] - cost.colorless)
             IN  total_remaining >= cost.generic

can_cast_spell(g, p, spell) ==
    IF ~InSeq(spell, g.players[p].hand) \/ is_land(g.cards[spell]) THEN FALSE
    ELSE can_pay_mana_cost(g, p, g.cards[spell].mana_cost)

\* find_land_for_color of tap_lands_for_spell: reserves, in list order, untapped
\* lands whose name holds color_name; [tap: the lands reserved so far, rem: remaining]
RECURSIVE find_land_for_color(_, _, _, _, _)
find_land_for_color(g, untapped_lands, color_name, remaining, lands_to_tap) ==
    IF untapped_lands = <<>> \/ remaining <= 0
    THEN [tap |-> lands_to_tap, rem |-> remaining]
    ELSE LET land == Head(untapped_lands)
         IN  IF LandColor(g.cards[land].name) = color_name /\ ~InSeq(land, lands_to_tap)
             THEN find_land_for_color(g, Tail(untapped_lands), color_name,
                                      remaining - 1, Append(lands_to_tap, land))
             ELSE find_land_for_color(g, Tail(untapped_lands), color_name,
                                      remaining, lands_to_tap)

\* a generic loop that does not look at the lands already reserved
RECURSIVE find_land_for_generic_any(_, _, _)
find_land_for_generic_any(untapped_lands, remaining, lands_to_tap) ==
    IF untapped_lands = <<>> \/ remaining <= 0
    THEN [tap |-> lands_to_tap, rem |-> remaining]
    ELSE find_land_for_generic_any(Tail(untapped_lands), remaining - 1,
                                   Append(lands_to_tap, Head(untapped_lands)))

\* the generic loop of tap_lands_for_spell: any untapped land not yet reserved
RECURSIVE find_land_for_generic(_, _, _)
find_land_for_generic(untapped_lands, remaining, lands_to_tap) ==
    IF untapped_lands = <<>> \/ remaining <= 0
    THEN [tap |-> lands_to_tap, rem |-> remaining]
    ELSE LET land == Head(untapped_lands)
         IN  IF ~InSeq(land, lands_to_tap)
             THEN find_land_for_generic(Tail(untapped_lands), remaining - 1,
                                        Append(lands_to_tap, land))
             ELSE find_land_for_generic(Tail(untapped_lands), remaining, lands_to_tap)

\* the last loop of tap_lands_for_spell: tap each reserved land and add its mana
RECURSIVE tap_and_add_mana(_, _, _)
tap_and_add_mana(g, p, lands_to_tap) ==
    IF lands_to_tap = <<>> THEN g
    ELSE LET land == Head(lands_to_tap)
         IN  tap_and_add_mana(
                 [g EXCEPT !.cards[land].is_tapped = TRUE,
                           !.players[p].mana_pool =
                               add_mana(@, LandColor(g.cards[land].name))],
                 p, Tail(lands_to_tap))

\* tap_lands_for_spell after its feasibility check
reserve_and_tap_lands(g, p, spell) ==
    LET cost == g.cards[spell].mana_cost
        pool == g.players[p].mana_pool
        needed == [white |-> Max(0, cost.white - pool["white"]),
                   blue |-> Max(0, cost.blue - pool["blue"]),
                   black |-> Max(0, cost.black - pool["black"]),
                   red |-> Max(0, cost.red - pool["red"]),
                   green |-> Max(0, cost.green - pool["green"]),
                   colorless |-> Max(0, cost.colorless - pool["colorless"])]
        generic_needed == cost.generic
        total_needed == needed.white + needed.blue + needed.black + needed.red
                          + needed.green + needed.colorless + generic_needed
        untapped_lands == SelectSeq(get_lands(g, p), LAMBDA c : ~g.cards[c].is_tapped)
        w == find_land_for_color(g, untapped_lands, "white", needed.white, <<>>)
        u == find_land_for_color(g, untapped_lands, "blue", needed.blue, w.tap)
        b == find_land_for_color(g, untapped_lands, "black", needed.black, u.tap)
        r == find_land_for_color(g, untapped_lands, "red", needed.red, b.tap)
        gr == find_land_for_color(g, untapped_lands, "green", needed.green, r.tap)
        pool_available_for_generic ==
            Max(0, pool["white"] - cost.white) + Max(0, pool["blue"] - cost.blue)
              + Max(0, pool["black"] - cost.black) + Max(0, pool["red"] - cost.red)
              + Max(0, pool["green"] - cost.green)
              + Max(0, pool["colorless"] - cost.colorless)
        generic_remaining == Max(0, generic_needed - pool_available_for_generic)
        gen == find_land_for_generic(untapped_lands, generic_remaining, gr.tap)
    IN  IF total_needed = 0 THEN [g EXCEPT !.ret = "True"]
        ELSE IF w.rem > 0 \/ u.rem > 0 \/ b.rem > 0 \/ r.rem > 0 \/ gr.rem > 0
                  \/ gen.rem > 0
        THEN [g EXCEPT !.ret = "False"]
        ELSE [tap_and_add_mana(g, p, gen.tap) EXCEPT !.ret = "True"]

\* tap_lands_for_spell without its feasibility check
tap_lands_unchecked(g, p, spell) == reserve_and_tap_lands(g, p, spell)

\* Player.tap_lands_for_spell
tap_lands_for_spell(g, p, spell) ==
    IF ~can_pay_mana_cost(g, p, g.cards[spell].mana_cost) THEN [g EXCEPT !.ret = "False"]
    ELSE reserve_and_tap_lands(g, p, spell)

\* Player.resolve_spell: the fallback that puts a non-creature into the graveyard
player_resolve_spell(g, p, spell) ==
    IF ~is_creature(g.cards[spell])
    THEN [g EXCEPT !.players[p].graveyard = Append(@, spell),
                   !.cards[spell].zone = "graveyard"]
    ELSE g

\* the part of Player.cast_spell after the lands were tapped
cast_spell_paying(g1, p, spell) ==
    IF g1.ret # "True" THEN [g1 EXCEPT !.ret = "False"]
    ELSE LET paid == pay_cost(g1.players[p].mana_pool, g1.cards[spell].mana_cost)
         IN  IF ~paid.ok THEN [g1 EXCEPT !.ret = "False"]
             ELSE IF is_creature(g1.cards[spell])
             THEN [g1 EXCEPT !.players[p].mana_pool = paid.pool,
                             !.players[p].hand = RemoveFirst(@, spell),
                             !.players[p].battlefield = Append(@, spell),
                             !.cards[spell] = card_enters_battlefield(
                                 [@ EXCEPT !.zone = "battlefield",
                                           !.controller = p], g1.turn_number),
                             !.ret = "True"]
             ELSE [player_resolve_spell(
                       [g1 EXCEPT !.players[p].mana_pool = paid.pool,
                                  !.players[p].hand = RemoveFirst(@, spell)],
                       p, spell) EXCEPT !.ret = "True"]

\* Player.cast_spell
cast_spell(g, p, spell) ==
    IF ~can_cast_spell(g, p, spell) THEN [g EXCEPT !.ret = "False"]
    ELSE cast_spell_paying(tap_lands_for_spell(g, p, spell), p, spell)

\* the cards of a list, each changed by F
MapCards(g, list, F(_)) ==
    [g EXCEPT !.cards = [c \in DOMAIN g.cards |->
                            IF InSeq(c, list) THEN F(g.cards[c]) ELSE g.cards[c]]]

start_turn(g, p) ==
    MapCards([g EXCEPT !.players[p].has_played_land_this_turn = FALSE,
                       !.players[p].turn_count = @ + 1],
             g.players[p].battlefield, reset_for_turn)

untap_step(g, p) ==
    MapCards(g, g.players[p].battlefield, LAMBDA card : [card EXCEPT !.is_tapped = FALSE])

upkeep_step(g, p) == g

draw_step(g, p) == draw_card(g, p)

\* the discard loop of cleanup_step; random.randint is the next number of g.rnd
RECURSIVE discard_to_hand_size(_, _)
discard_to_hand_size(g, p) ==
    IF Len(g.players[p].hand) <= MaxHandSize THEN g
    ELSE LET hand == g.players[p].hand
             i == (IF g.rnd = <<>> THEN 0 ELSE Head(g.rnd) % Len(hand)) + 1
             discarded == hand[i]
         IN  discard_to_hand_size(
                 [g EXCEPT !.players[p].hand = SubSeq(hand, 1, i - 1)
                                                 \o SubSeq(hand, i + 1, Len(hand)),
                           !.players[p].graveyard = Append(@, discarded),
                           !.cards[discarded].zone = "graveyard",
                           !.rnd = IF @ = <<>> THEN <<>> ELSE Tail(@)],
                 p)

cleanup_step(g, p) ==
    LET g1 == discard_to_hand_size(g, p)
    IN  [g1 EXCEPT !.players[p].mana_pool = empty_pool(@)]

\* ---------------------------------------------------------------- exile tracker

\* ExileTracker.return_exiled_cards, over the list tracked for the source
RECURSIVE return_each(_, _)
return_each(g, exiled_cards) ==
    IF exiled_cards = <<>> THEN g
    ELSE LET card == Head(exiled_cards)
             owner == g.cards[card].owner
         IN  IF g.cards[card].zone = "exile" /\ InSeq(card, g.players[owner].exile)
             THEN return_each(
                      [g EXCEPT !.players[owner].exile = RemoveFirst(@, card),
                                !.players[owner].battlefield = Append(@, card),
                                !.cards[card] = card_enters_battlefield(
                                    [@ EXCEPT !.zone = "battlefield",
                                              !.controller = owner],
                                    g.turn_number)],
                      Tail(exiled_cards))
             ELSE return_each(g, Tail(exiled_cards))

return_exiled_cards(g, source_card) ==
    [return_each(g, g.exiled_by_source[source_card])
        EXCEPT !.exiled_by_source[source_card] = <<>>]

\* card.leaves_battlefield(): Card's method, extended by BanishingLight
leaves_battlefield(g, card) ==
    LET g1 == [g EXCEPT !.cards[card] = card_leaves_battlefield(@)]
    IN  IF g.cards[card].name = "Banishing Light"
        THEN return_exiled_cards(g1, card)
        ELSE g1

\* the end of ExileTracker.exile_card, unless the removal raised
put_in_exile(g, target_card) ==
    IF g.exc # "" THEN g
    ELSE [g EXCEPT !.players[g.cards[target_card].owner].exile =
                       Append(@, target_card),
                   !.cards[target_card].zone = "exile"]

\* ExileTracker.exile_card; list.remove of an absent card raises ValueError
exile_card(g, source_card, target_card) ==
    LET g1 == [g EXCEPT !.exiled_by_source[source_card] = Append(@, target_card)]
        zone == g.cards[target_card].zone
        controller == g.cards[target_card].controller
    IN  put_in_exile(
            IF zone = "battlefield"
            THEN IF InSeq(target_card, g1.players[controller].battlefield)
                 THEN leaves_battlefield(
                          [g1 EXCEPT !.players[controller].battlefield =
                                         RemoveFirst(@, target_card)],
                          target_card)
                 ELSE [g1 EXCEPT !.exc = "ValueError"]
            ELSE IF zone = "hand"
            THEN IF InSeq(target_card, g1.players[controller].hand)
                 THEN [g1 EXCEPT !.players[controller].hand =
                                     RemoveFirst(@, target_card)]
                 ELSE [g1 EXCEPT !.exc = "ValueError"]
            ELSE IF zone = "graveyard"
            THEN IF InSeq(target_card, g1.players[controller].graveyard)
                 THEN [g1 EXCEPT !.players[controller].graveyard =
                                     RemoveFirst(@, target_card)]
                 ELSE [g1 EXCEPT !.exc = "ValueError"]
            ELSE g1,
            target_card)

\* Player.sacrifice_permanent
sacrifice_permanent(g, p, permanent) ==
    IF ~InSeq(permanent, g.players[p].battlefield) THEN [g EXCEPT !.ret = "False"]
    ELSE [leaves_battlefield(
              [g EXCEPT !.players[p].battlefield = RemoveFirst(@, permanent),
                        !.players[p].graveyard = Append(@, permanent),
                        !.cards[permanent].zone = "graveyard"],
              permanent) EXCEPT !.ret = "True"]

\* ---------------------------------------------------------------- effects system

\* TriggerManager._trigger_matches_event
trigger_matches_event(ability, event_type, event_card, source) ==
    IF ability.trigger_condition = "" THEN FALSE
    ELSE IF ability.trigger_condition = "enters_battlefield"
    THEN event_type = "enters_battlefield" /\ event_card = source
    ELSE IF ability.trigger_condition = "dies"
    THEN event_type = "dies" /\ event_card = source
    ELSE FALSE

\* TriggerManager._check_card_triggers, from the i-th ability of the card on
RECURSIVE check_card_triggers(_, _, _, _, _)
check_card_triggers(g, card, event_type, event_card, i) ==
    IF i > Len(g.cards[card].abilities) THEN g
    ELSE LET ability == g.cards[card].abilities[i]
         IN  check_card_triggers(
                 IF ability.ability_type = "triggered"
                      /\ trigger_matches_event(ability, event_type, event_card, card)
                 THEN [g EXCEPT !.pending_triggers =
                                    Append(@, [ability |-> i, source |-> card]),
                                !.tl.enqueued =
                                    Append(@, [ability |-> i, source |-> card])]
                 ELSE g,
                 card, event_type, event_card, i + 1)

RECURSIVE check_triggers_of(_, _, _, _)
check_triggers_of(g, permanents, event_type, event_card) ==
    IF permanents = <<>> THEN g
    ELSE check_triggers_of(
             check_card_triggers(g, Head(permanents), event_type, event_card, 1),
             Tail(permanents), event_type, event_card)

\* TriggerManager.check_triggers: scans the battlefields of the players in order
check_triggers(g, event_type, event_card) ==
    check_triggers_of(g, g.players[0].battlefield \o g.players[1].battlefield,
                      event_type, event_card)

\* DockworkerDrone._choose_counter_target: the answer of the agent, else the first
choose_counter_target(g, valid_targets) ==
    IF g.resp # 0 /\ InSeq(g.resp, valid_targets) THEN g.resp ELSE Head(valid_targets)

\* Effect.execute, by the routine the effect was made of
execute_effect(g, effect, source) ==
    LET controller == g.cards[source].controller
    IN  IF effect.fn = "add_counters"
        THEN [g EXCEPT !.cards[source] = add_counter(@, effect.arg, 1)]
        ELSE IF effect.fn = "add_mana"
        THEN [g EXCEPT !.players[controller].mana_pool = add_mana(@, effect.arg)]
        ELSE IF effect.fn = "sacrifice_draw"
        THEN IF InSeq(source, g.players[controller].battlefield)
             THEN check_triggers(
                      draw_card([g EXCEPT !.players[controller].battlefield =
                                              RemoveFirst(@, source),
                                          !.players[controller].graveyard =
                                              Append(@, source),
                                          !.cards[source].zone = "graveyard"],
                                controller),
                      "dies", source)
             ELSE g
        ELSE IF effect.fn = "move_counters_on_death"
        THEN LET counters_to_move == g.cards[source].counters
                 valid_targets == SelectSeq(get_creatures(g, controller),
                                            LAMBDA c : c # source)
             IN  IF \A k \in CounterKinds : counters_to_move[k] = 0 THEN g
                 ELSE IF valid_targets = <<>> THEN g
                 ELSE LET target == choose_counter_target(g, valid_targets)
                      IN  [g EXCEPT !.cards[target].counters =
                                        [k \in CounterKinds |->
                                            @[k] + counters_to_move[k]]]
        ELSE IF effect.fn = "raise"
        THEN [g EXCEPT !.exc = "Exception"]
        ELSE IF effect.fn = "fire_dies"
        THEN check_triggers(g, "dies", source)
        ELSE g

\* a can_activate that does not look at the tapped flag
can_activate_tapped(ability, source) == ability.ability_type = "activated"

\* Ability.can_activate
can_activate(ability, source) ==
    IF ability.ability_type # "activated" THEN FALSE
    ELSE IF ability.cost = "T" /\ source.is_tapped THEN FALSE
    ELSE TRUE

\* the return of Ability.activate, unless the effect raised
activated(g) == IF g.exc # "" THEN g ELSE [g EXCEPT !.ret = "True"]

\* Ability.activate of the i-th ability of the source
activate(g, source, i) ==
    LET ability == g.cards[source].abilities[i]
    IN  IF ~can_activate(ability, g.cards[source]) THEN [g EXCEPT !.ret = "False"]
        ELSE activated(execute_effect(
                 IF ability.cost = "T"
                 THEN [g EXCEPT !.cards[source].is_tapped = TRUE]
                 ELSE g,
                 ability.effect, source))

\* a resolve_triggers that takes the trigger enqueued last
RECURSIVE resolve_triggers_lifo(_)
resolve_triggers_lifo(g) ==
    IF g.pending_triggers = <<>> \/ g.exc # "" THEN g
    ELSE LET t == g.pending_triggers[Len(g.pending_triggers)]
         IN  resolve_triggers_lifo(
                 execute_effect([g EXCEPT !.pending_triggers =
                                              SubSeq(@, 1, Len(@) - 1),
                                          !.tl.run = Append(@, t)],
                                g.cards[t.source].abilities[t.ability].effect,
                                t.source))

\* TriggerManager.resolve_triggers; an exception of an effect ends the loop
RECURSIVE resolve_triggers(_)
resolve_triggers(g) ==
    IF g.pending_triggers = <<>> \/ g.exc # "" THEN g
    ELSE LET t == Head(g.pending_triggers)
         IN  resolve_triggers(
                 execute_effect([g EXCEPT !.pending_triggers = Tail(@),
                                          !.tl.run = Append(@, t)],
                                g.cards[t.source].abilities[t.ability].effect,
                                t.source))

\* ---------------------------------------------------------------- prompt system

PromptTypes == {"target", "choice", "multi_choice", "text", "yesno", "card_choice", "number"}

\* Python values a default_response can hold (it is declared Any); None is <<>>
\* and a value v is <<v>>
BoolValue(b) == [type |-> "bool", b |-> b, n |-> 0, s |-> "", ids |-> <<>>]
IntValue(n) == [type |-> "int", b |-> FALSE, n |-> n, s |-> "", ids |-> <<>>]
StrValue(s) == [type |-> "str", b |-> FALSE, n |-> 0, s |-> s, ids |-> <<>>]
ListValue(ids) == [type |-> "list", b |-> FALSE, n |-> 0, s |-> "", ids |-> ids]

\* bool(v)
py_bool(v) ==
    CASE v.type = "bool" -> v.b
      [] v.type = "int" -> v.n # 0
      [] v.type = "str" -> v.s # ""
      [] OTHER -> v.ids # <<>>

\* the decimal strings int() reads, with their values
Numerals == [s \in {"0", "1", "2"} |-> CASE s = "0" -> 0 [] s = "1" -> 1 [] OTHER -> 2]

\* int(v): [exc, n]; a string that is no numeral raises ValueError, a list TypeError
py_int(v) ==
    CASE v.type = "bool" -> [exc |-> "", n |-> IF v.b THEN 1 ELSE 0]
      [] v.type = "int" -> [exc |-> "", n |-> v.n]
      [] v.type = "str" -> IF v.s \in DOMAIN Numerals
                           THEN [exc |-> "", n |-> Numerals[v.s]]
                           ELSE [exc |-> "ValueError", n |-> 0]
      [] OTHER -> [exc |-> "TypeError", n |-> 0]

\* str(v); the numbers of the model are 0 .. 2, the lists are written in short
py_str(v) ==
    CASE v.type = "bool" -> IF v.b THEN "True" ELSE "False"
      [] v.type = "int" -> CHOOSE s \in DOMAIN Numerals : Numerals[s] = v.n
      [] v.type = "str" -> v.s
      [] OTHER -> IF v.ids = <<>> THEN "[]" ELSE "[ids]"

\* PromptRequest: the fields request_prompt reads
PromptRequest(prompt_type, min_choices, max_choices, default_response) ==
    [prompt_type |-> prompt_type, min_choices |-> min_choices,
     max_choices |-> max_choices, default_response |-> default_response]

\* PromptResponse; a field left None is <<>>, __post_init__ makes selected_ids a list
PromptResponse(selected_ids, text_response, number_response, boolean_response) ==
    [selected_ids |-> selected_ids, text_response |-> text_response,
     number_response |-> number_response, boolean_response |-> boolean_response]

\* PromptManager._create_default_response: [exc, response]
create_default_response(prompt_request) ==
    LET d == prompt_request.default_response[1]
        t == prompt_request.prompt_type
    IN  CASE t = "yesno" ->
                [exc |-> "", response |-> PromptResponse(<<>>, <<>>, <<>>, <<py_bool(d)>>)]
          [] t = "number" ->
                [exc |-> py_int(d).exc,
                 response |-> PromptResponse(<<>>, <<>>, <<py_int(d).n>>, <<>>)]
          [] t = "text" ->
                [exc |-> "", response |-> PromptResponse(<<>>, <<py_str(d)>>, <<>>, <<>>)]
          [] t \in {"target", "choice", "card_choice"} ->
                [exc |-> "",
                 response |-> PromptResponse(IF d.type = "list" THEN d.ids ELSE <<py_str(d)>>,
                                             <<>>, <<>>, <<>>)]
          [] t = "multi_choice" ->
                [exc |-> "",
                 response |-> PromptResponse(IF ~py_bool(d) THEN <<>>
                                             ELSE IF d.type = "list" THEN d.ids ELSE d,
                                             <<>>, <<>>, <<>>)]
          [] OTHER -> [exc |-> "", response |-> PromptResponse(<<>>, <<>>, <<>>, <<>>)]

\* a validation that accepts every response
validate_response_lenient(request, response) == TRUE

\* PromptManager._validate_response: TRUE when no PromptError is raised
validate_response(request, response) ==
    CASE request.prompt_type = "yesno" -> response.boolean_response # <<>>
      [] request.prompt_type = "number" -> response.number_response # <<>>
      [] request.prompt_type = "text" -> response.text_response # <<>>
      [] request.prompt_type \in {"target", "choice", "card_choice"} ->
            response.selected_ids # <<>> /\ Len(response.selected_ids) = 1
      [] request.prompt_type = "multi_choice" ->
            /\ ~(Len(response.selected_ids) < request.min_choices)
            /\ ~(Len(response.selected_ids) > request.max_choices)
      [] OTHER -> TRUE

\* the fallback of request_prompt: the default response if one is declared,
\* PromptError otherwise
prompt_fallback(prompt_request) ==
    IF prompt_request.default_response # <<>>
    THEN create_default_response(prompt_request)
    ELSE [exc |-> "PromptError", response |-> PromptResponse(<<>>, <<>>, <<>>, <<>>)]

\* what a callback does: it raises, or it returns a response
Raising == [raises |-> TRUE, response |-> PromptResponse(<<>>, <<>>, <<>>, <<>>)]
Answering(response) == [raises |-> FALSE, response |-> response]

\* PromptManager.request_prompt: [exc, response]; callback is <<>> when none is
\* registered for the player, else <<what the callback does>>
request_prompt(prompt_request, callback) ==
    IF callback = <<>> THEN prompt_fallback(prompt_request)
    ELSE IF callback[1].raises THEN prompt_fallback(prompt_request)
    ELSE IF ~validate_response(prompt_request, callback[1].response)
    THEN prompt_fallback(prompt_request)
    ELSE [exc |-> "", response |-> callback[1].response]

\* ---------------------------------------------------------------- targeting system

\* Card.get_target_filter: the name of the filter, "" for None
get_target_filter(card) ==
    IF card.name = "Banishing Light" THEN "nonland_permanent_opponent" ELSE ""

\* TargetFilter.is_valid_target with the validators of TargetingSystem
is_valid_target(target_filter, card, caster) ==
    IF target_filter = "nonland_permanent_opponent"
    THEN card.zone = "battlefield" /\ ~is_land(card) /\ card.controller # caster
    ELSE IF target_filter = "creature_you_control"
    THEN card.zone = "battlefield" /\ is_creature(card) /\ card.controller = caster
    ELSE FALSE

get_valid_targets(g, caster, target_filter) ==
    SelectSeq(g.players[0].battlefield \o g.players[1].battlefield,
              LAMBDA c : is_valid_target(target_filter, g.cards[c], caster))

\* TargetingSystem.find_card_by_id: TRUE when some searched zone holds the id
find_card_by_id(g, card_id) ==
    \E p \in PlayerIds :
        \/ InSeq(card_id, g.players[p].battlefield)
        \/ InSeq(card_id, g.players[p].hand)
        \/ InSeq(card_id, g.players[p].graveyard)
        \/ InSeq(card_id, g.players[p].exile)
        \/ InSeq(card_id, g.players[p].library)

\* TargetingSystem.validate_targets: [ok: no TargetingError raised, targets]
validate_targets(g, caster, target_filter, target_ids) ==
    IF target_ids = <<>> THEN [ok |-> FALSE, targets |-> <<>>]
    ELSE IF \A i \in 1 .. Len(target_ids) :
                /\ find_card_by_id(g, target_ids[i])
                /\ is_valid_target(target_filter, g.cards[target_ids[i]], caster)
    THEN [ok |-> TRUE, targets |-> target_ids]
    ELSE [ok |-> FALSE, targets |-> <<>>]

\* the prompt request_targets creates: create_target_prompt for one target,
\* create_card_choice_prompt otherwise; neither declares a default
target_prompt(num_targets) ==
    PromptRequest(IF num_targets = 1 THEN "target"
                  ELSE IF num_targets > 1 THEN "multi_choice" ELSE "card_choice",
                  IF num_targets = 1 THEN 1 ELSE num_targets,
                  IF num_targets = 1 THEN 1 ELSE num_targets, <<>>)

\* a TargetingError, raised before or after request_prompt was called
TargetingError(prompted) == [ok |-> FALSE, targets |-> <<>>, prompted |-> prompted]

\* request_targets from the call of request_prompt on
targets_selected(g, valid_targets, num_targets, answer) ==
    IF answer.exc # "" THEN TargetingError(TRUE)
    ELSE IF /\ \A i \in 1 .. Len(answer.response.selected_ids) :
                   /\ find_card_by_id(g, answer.response.selected_ids[i])
                   /\ InSeq(answer.response.selected_ids[i], valid_targets)
            /\ Len(answer.response.selected_ids) = num_targets
    THEN [ok |-> TRUE, targets |-> answer.response.selected_ids, prompted |-> TRUE]
    ELSE TargetingError(TRUE)

\* the request_targets that asks the agent first and counts the candidates after
request_targets_asking(g, caster, target_filter, num_targets, callback) ==
    IF get_valid_targets(g, caster, target_filter) = <<>> THEN TargetingError(TRUE)
    ELSE IF num_targets > Len(get_valid_targets(g, caster, target_filter))
    THEN TargetingError(TRUE)
    ELSE targets_selected(g, get_valid_targets(g, caster, target_filter), num_targets,
                          request_prompt(target_prompt(num_targets), callback))

\* TargetingSystem.request_targets: [ok: no TargetingError raised, targets,
\* prompted: request_prompt was called]; callback is what the prompt manager
\* finds registered for the caster
request_targets(g, caster, target_filter, num_targets, callback) ==
    IF get_valid_targets(g, caster, target_filter) = <<>> THEN TargetingError(FALSE)
    ELSE IF num_targets > Len(get_valid_targets(g, caster, target_filter))
    THEN TargetingError(FALSE)
    ELSE targets_selected(g, get_valid_targets(g, caster, target_filter), num_targets,
                          request_prompt(target_prompt(num_targets), callback))

\* TargetingSystem.request_single_target; g.resp is the id the agent selects,
\* 0 when no callback is registered
request_single_target(g, caster, target_filter) ==
    request_targets(g, caster, target_filter, 1,
                    IF g.resp = 0 THEN <<>>
                    ELSE <<Answering(PromptResponse(<<g.resp>>, <<>>, <<>>, <<>>))>>)

\* ---------------------------------------------------------------- spell system

\* Card.resolve_spell, the default
card_resolve_spell(g, card, caster, targets) ==
    [g EXCEPT !.players[caster].graveyard = Append(@, card),
              !.cards[card].zone = "graveyard",
              !.ret = "True"]

\* BanishingLight.resolve_spell from the exile of the target on; an exception
\* puts the card into the graveyard as well
banishing_light_entered(g2, card, caster, target) ==
    IF g2.exc # ""
    THEN [g2 EXCEPT !.exc = "",
                    !.players[caster].graveyard = Append(@, card),
                    !.cards[card].zone = "graveyard",
                    !.ret = "False"]
    ELSE [check_triggers(IF is_creature(g2.cards[target])
                         THEN check_triggers(g2, "dies", target)
                         ELSE g2,
                         "enters_battlefield", card)
             EXCEPT !.ret = "True"]

\* a resolve_spell that gives the card up without putting it anywhere
banishing_light_dropped(g, card, caster, targets) ==
    IF targets = <<>> THEN [g EXCEPT !.ret = "False"]
    ELSE banishing_light_entered(
             exile_card([g EXCEPT !.players[caster].battlefield = Append(@, card),
                                  !.cards[card].zone = "battlefield",
                                  !.cards[card].controller = caster],
                        card, targets[1]),
             card, caster, targets[1])

\* BanishingLight.resolve_spell
banishing_light_resolve_spell(g, card, caster, targets) ==
    LET requested == IF targets = <<>>
                     THEN request_single_target(g, caster,
                                                get_target_filter(g.cards[card]))
                     ELSE [ok |-> TRUE, targets |-> targets, prompted |-> FALSE]
    IN  IF ~requested.ok
        THEN [g EXCEPT !.players[caster].graveyard = Append(@, card),
                       !.cards[card].zone = "graveyard",
                       !.prompts = @ + IF requested.prompted THEN 1 ELSE 0,
                       !.ret = "False"]
        ELSE banishing_light_entered(
                 exile_card([g EXCEPT !.players[caster].battlefield = Append(@, card),
                                      !.cards[card].zone = "battlefield",
                                      !.cards[card].controller = caster,
                                      !.prompts = @ + IF requested.prompted THEN 1 ELSE 0],
                            card, requested.targets[1]),
                 card, caster, requested.targets[1])

\* the resolve_spell of the class of the source card
resolve_spell(g, stack_object) ==
    IF g.cards[stack_object.source_card].name = "Banishing Light"
    THEN banishing_light_resolve_spell(g, stack_object.source_card,
                                       stack_object.caster, stack_object.targets)
    ELSE IF g.cards[stack_object.source_card].name = "Misfire"
    THEN [g EXCEPT !.exc = "Exception"]
    ELSE card_resolve_spell(g, stack_object.source_card, stack_object.caster,
                            stack_object.targets)

\* StackObject.resolve: an exception of resolve_spell is logged and False returned
stack_object_resolve(g, stack_object) ==
    LET resolved == resolve_spell(g, stack_object)
    IN  IF resolved.exc # ""
        THEN [resolved EXCEPT !.exc = "", !.ret = "False"]
        ELSE resolved

\* SpellSystem.cast_spell_with_targets after the lands were tapped
cast_paying(g1, caster, spell, targets) ==
    IF g1.ret # "True" THEN [g1 EXCEPT !.ret = "False"]
    ELSE LET paid == pay_cost(g1.players[caster].mana_pool,
                              g1.cards[spell].mana_cost)
         IN  IF ~paid.ok THEN [g1 EXCEPT !.ret = "False"]
             ELSE IF is_creature(g1.cards[spell])
             THEN [check_triggers(
                       [g1 EXCEPT !.players[caster].mana_pool = paid.pool,
                                  !.players[caster].hand = RemoveFirst(@, spell),
                                  !.players[caster].battlefield = Append(@, spell),
                                  !.cards[spell] = card_enters_battlefield(
                                      [@ EXCEPT !.zone = "battlefield",
                                                !.controller = caster],
                                      g1.turn_number)],
                       "enters_battlefield", spell) EXCEPT !.ret = "True"]
             ELSE [g1 EXCEPT !.players[caster].mana_pool = paid.pool,
                             !.players[caster].hand = RemoveFirst(@, spell),
                             !.cards[spell].zone = "stack",
                             !.stack = Append(@, [source_card |-> spell,
                                                  caster |-> caster,
                                                  targets |-> targets]),
                             !.ret = "True"]

\* SpellSystem.cast_spell_with_targets
cast_spell_with_targets(g, caster, spell, target_ids) ==
    IF ~can_cast_spell(g, caster, spell) THEN [g EXCEPT !.ret = "False"]
    ELSE
    LET target_filter == get_target_filter(g.cards[spell])
        validated == IF target_filter # "" /\ target_ids # <<>>
                     THEN validate_targets(g, caster, target_filter, target_ids)
                     ELSE [ok |-> TRUE, targets |-> <<>>]
    IN  IF ~validated.ok THEN [g EXCEPT !.ret = "False"]
        ELSE IF target_filter # "" /\ target_ids = <<>>
                  /\ get_valid_targets(g, caster, target_filter) # <<>>
        THEN [g EXCEPT !.ret = "False"]
        ELSE cast_paying(tap_lands_for_spell(g, caster, spell), caster, spell,
                         validated.targets)

\* a resolve_top_of_stack that takes the object pushed first
resolve_top_of_stack_oldest(g) ==
    IF g.stack = <<>> THEN [g EXCEPT !.ret = "False"]
    ELSE stack_object_resolve([g EXCEPT !.stack = SubSeq(@, 2, Len(@))],
                              g.stack[1])

\* SpellSystem.resolve_top_of_stack
resolve_top_of_stack(g) ==
    IF g.stack = <<>> THEN [g EXCEPT !.ret = "False"]
    ELSE stack_object_resolve([g EXCEPT !.stack = SubSeq(@, 1, Len(@) - 1)],
                              g.stack[Len(g.stack)])

\* ---------------------------------------------------------------- actions system

\* Action(action_type, ..., card=, ability=, attackers=) made for `player`;
\* the ability is its index in the abilities of the card, 0 stands for no data
Action(action_type, player, card, ability, attackers) ==
    [action_type |-> action_type, player |-> player, card |-> card,
     ability |-> ability, attackers |-> attackers]

\* the actions F(x) for the elements x of a list that satisfy Test, in list order
ActionsOver(list, Test(_), F(_)) ==
    LET chosen == SelectSeq(list, Test)
    IN  [i \in 1 .. Len(chosen) |-> F(chosen[i])]

get_main_phase_actions(g, player) ==
    (IF player = g.priority /\ ~g.players[player].has_played_land_this_turn
     THEN ActionsOver(g.players[player].hand,
                      LAMBDA c : is_land(g.cards[c]),
                      LAMBDA c : Action("play_land", player, c, 0, <<>>))
     ELSE <<>>)
    \o ActionsOver(g.players[player].hand,
                   LAMBDA c : /\ is_spell(g.cards[c])
                              /\ ~has_type(g.cards[c], "instant")
                              /\ can_cast_spell(g, player, c),
                   LAMBDA c : Action("cast_spell", player, c, 0, <<>>))

get_attack_actions(g, player) ==
    LET potential_attackers ==
            SelectSeq(get_creatures(g, player), LAMBDA c : can_attack(g.cards[c]))
    IN  (IF potential_attackers # <<>>
         THEN <<Action("declare_attacks", player, 0, 0, potential_attackers)>>
                \o ActionsOver(potential_attackers, LAMBDA c : TRUE,
                       LAMBDA c : Action("declare_attacks", player, 0, 0, <<c>>))
         ELSE <<>>)
        \o <<Action("declare_attacks", player, 0, 0, <<>>)>>

get_block_actions(g, player) == <<Action("declare_blocks", player, 0, 0, <<>>)>>

get_active_player_actions(g, player) ==
    IF g.phase \in {"main1", "main2"} THEN get_main_phase_actions(g, player)
    ELSE IF g.phase = "declare_attackers" /\ ~g.attacks_declared
    THEN get_attack_actions(g, player)
    ELSE <<>>

get_non_active_player_actions(g, player) ==
    IF g.phase = "declare_blockers" /\ ~g.blocks_declared
    THEN get_block_actions(g, player)
    ELSE <<>>

\* the activated abilities of one card that can be activated
RECURSIVE card_ability_actions(_, _, _, _)
card_ability_actions(g, player, card, i) ==
    IF i > Len(g.cards[card].abilities) THEN <<>>
    ELSE (IF can_activate(g.cards[card].abilities[i], g.cards[card])
          THEN <<Action("activate_ability", player, card, i, <<>>)>>
          ELSE <<>>)
           \o card_ability_actions(g, player, card, i + 1)

RECURSIVE ability_actions(_, _, _)
ability_actions(g, player, permanents) ==
    IF permanents = <<>> THEN <<>>
    ELSE card_ability_actions(g, player, Head(permanents), 1)
           \o ability_actions(g, player, Tail(permanents))

get_instant_speed_actions(g, player) ==
    ability_actions(g, player, g.players[player].battlefield)
    \o ActionsOver(g.players[player].hand,
                   LAMBDA c : has_type(g.cards[c], "instant")
                                /\ can_cast_spell(g, player, c),
                   LAMBDA c : Action("cast_spell", player, c, 0, <<>>))

\* ActionGenerator.get_legal_actions
action_generator_get_legal_actions(g, player) ==
    (IF player = g.priority THEN <<Action("pass", player, 0, 0, <<>>)>> ELSE <<>>)
    \o (IF player = g.active THEN get_active_player_actions(g, player) ELSE <<>>)
    \o (IF player # g.active THEN get_non_active_player_actions(g, player) ELSE <<>>)
    \o (IF player = g.priority THEN get_instant_speed_actions(g, player) ELSE <<>>)

\* a validator that lets every player play a land in every phase
is_action_legal_any_time(action, g, player) ==
    IF action.action_type = "play_land"
    THEN InSeq(action.card, g.players[player].hand)
    ELSE IF player # g.priority THEN FALSE
    ELSE IF action.action_type = "pass" THEN TRUE
    ELSE IF action.action_type = "cast_spell"
    THEN IF ~InSeq(action.card, g.players[player].hand) THEN FALSE
         ELSE IF ~has_type(g.cards[action.card], "instant")
         THEN player = g.active /\ g.phase \in {"main1", "main2"}
         ELSE can_cast_spell(g, player, action.card)
    ELSE IF action.action_type = "activate_ability"
    THEN can_activate(g.cards[action.card].abilities[action.ability],
                      g.cards[action.card])
    ELSE IF action.action_type = "declare_attacks"
    THEN player = g.active /\ g.phase = "declare_attackers" /\ ~g.attacks_declared
    ELSE IF action.action_type = "declare_blocks"
    THEN player # g.active /\ g.phase = "declare_blockers" /\ ~g.blocks_declared
    ELSE FALSE

\* ActionValidator.is_action_legal
is_action_legal(action, g, player) ==
    IF player # g.priority THEN FALSE
    ELSE IF action.action_type = "pass" THEN TRUE
    ELSE IF action.action_type = "play_land"
    THEN /\ player = g.active
         /\ g.phase \in {"main1", "main2"}
         /\ ~g.players[player].has_played_land_this_turn
         /\ InSeq(action.card, g.players[player].hand)
    ELSE IF action.action_type = "cast_spell"
    THEN IF ~InSeq(action.card, g.players[player].hand) THEN FALSE
         ELSE IF ~has_type(g.cards[action.card], "instant")
         THEN player = g.active /\ g.phase \in {"main1", "main2"}
         ELSE can_cast_spell(g, player, action.card)
    ELSE IF action.action_type = "activate_ability"
    THEN can_activate(g.cards[action.card].abilities[action.ability],
                      g.cards[action.card])
    ELSE IF action.action_type = "declare_attacks"
    THEN player = g.active /\ g.phase = "declare_attackers" /\ ~g.attacks_declared
    ELSE IF action.action_type = "declare_blocks"
    THEN player # g.active /\ g.phase = "declare_blockers" /\ ~g.blocks_declared
    ELSE FALSE

\* the generated actions that pass the validator
legal_actions(g, player) ==
    SelectSeq(action_generator_get_legal_actions(g, player),
              LAMBDA a : is_action_legal(a, g, player))

\* the closures declare_attacks and declare_blocks of the generator
RECURSIVE declare_each(_, _)
declare_each(g, attackers) ==
    IF attackers = <<>> THEN g
    ELSE declare_each(
             IF can_attack(g.cards[Head(attackers)])
             THEN [g EXCEPT !.cards[Head(attackers)].is_attacking = TRUE,
                            !.cards[Head(attackers)].is_tapped = TRUE]
             ELSE g,
             Tail(attackers))

\* a declare_attacks closure that does not mark the declaration
declare_attacks_unmarked(g, player, attackers) ==
    [declare_each(
         MapCards(g, get_creatures(g, player),
                  LAMBDA card : [card EXCEPT !.is_attacking = FALSE]),
         attackers) EXCEPT !.ret = "True"]

declare_attacks(g, player, attackers) ==
    [declare_each(
         MapCards([g EXCEPT !.attacks_declared = TRUE], get_creatures(g, player),
                  LAMBDA card : [card EXCEPT !.is_attacking = FALSE]),
         attackers) EXCEPT !.ret = "True"]

declare_blocks(g, player, blockers) ==
    [MapCards([g EXCEPT !.blocks_declared = TRUE], get_creatures(g, player),
              LAMBDA card : [card EXCEPT !.is_blocking = FALSE])
        EXCEPT !.ret = "True"]

\* the end of the closures play_land and cast_spell: the ETB event of the card
trigger_etb(g1, card, creatures_only) ==
    IF g1.ret = "True" /\ (~creatures_only \/ is_creature(g1.cards[card]))
    THEN [check_triggers(g1, "enters_battlefield", card) EXCEPT !.ret = "True"]
    ELSE g1

\* the closure play_land of the generator
action_play_land(g, player, land) == trigger_etb(play_land(g, player, land), land, FALSE)

\* the closure cast_spell of the generator
action_cast_spell(g, player, spell) ==
    trigger_etb(cast_spell(g, player, spell), spell, TRUE)

\* ---------------------------------------------------------------- combat system

RECURSIVE total_power(_, _)
total_power(g, attackers) ==
    IF attackers = <<>> THEN 0
    ELSE current_power(g.cards[Head(attackers)]) + total_power(g, Tail(attackers))

\* CombatSystem.resolve_combat_damage
resolve_combat_damage(g) ==
    LET attackers == get_attackers(g, g.active)
        total_damage == total_power(g, attackers)
    IN  IF attackers = <<>> THEN g
        ELSE IF total_damage > 0 THEN lose_life(g, 1 - g.active, total_damage)
        ELSE g

\* the removal loop of check_creature_death for one player; changes_made is g.ret
RECURSIVE remove_creatures(_, _, _)
remove_creatures(g, p, creatures_to_remove) ==
    IF creatures_to_remove = <<>> THEN g
    ELSE LET creature == Head(creatures_to_remove)
         IN  remove_creatures(
                 check_triggers(
                     leaves_battlefield(
                         [g EXCEPT !.players[p].battlefield = RemoveFirst(@, creature),
                                   !.players[p].graveyard = Append(@, creature),
                                   !.cards[creature].zone = "graveyard",
                                   !.tl.died = Append(@, creature),
                                   !.ret = "True"],
                         creature),
                     "dies", creature),
                 p, Tail(creatures_to_remove))

creatures_to_die(g, p) ==
    SelectSeq(get_creatures(g, p), LAMBDA c : current_toughness(g.cards[c]) <= 0)

\* the body of the player loop of check_creature_death
check_creature_death_of(g, p) == remove_creatures(g, p, creatures_to_die(g, p))

\* CombatSystem.check_creature_death; g.ret tells whether changes were made
check_creature_death(g) ==
    check_creature_death_of(check_creature_death_of([g EXCEPT !.ret = "False"], 0), 1)

\* an end of combat that clears nothing
end_combat_keeping_marks(g) == g

\* CombatSystem.end_combat
end_combat(g) ==
    MapCards(g, get_creatures(g, 0) \o get_creatures(g, 1),
             LAMBDA card : [card EXCEPT !.is_attacking = FALSE, !.is_blocking = FALSE])

\* ---------------------------------------------------------------- game state

\* GameState._check_state_based_actions
RECURSIVE check_state_based_actions(_)
RECURSIVE while_changes_made(_)
\* an engine that never looks for dead creatures
no_state_based_actions(g) == g

while_changes_made(g) ==
    IF g.ret = "True" THEN check_state_based_actions(g) ELSE g

\* GameState._check_state_based_actions
check_state_based_actions(g) == while_changes_made(check_creature_death(g))

\* a check that names the first player the winner of every game that ends
check_win_conditions_first_player(g) ==
    IF Cardinality({p \in PlayerIds : is_alive(g, p)}) <= 1
    THEN [g EXCEPT !.game_over = TRUE, !.winner = <<0>>]
    ELSE g

\* GameState._check_win_conditions
check_win_conditions(g) ==
    LET alive_players == {p \in PlayerIds : is_alive(g, p)}
    IN  IF Cardinality(alive_players) <= 1
        THEN [g EXCEPT !.game_over = TRUE,
                       !.winner = IF alive_players # {}
                                  THEN <<CHOOSE p \in alive_players : TRUE>>
                                  ELSE @]
        ELSE g

RECURSIVE get_legal_actions(_, _)
RECURSIVE auto_pass(_, _)
RECURSIVE pass_priority(_)
RECURSIVE next_phase(_)
RECURSIVE enter_phase(_)
RECURSIVE phase_actions(_)
RECURSIVE advance_if_none(_)
RECURSIVE gs_start_turn(_)
RECURSIVE end_turn(_)

\* TRUE when passing is all a list of actions offers
only_pass(actions) == Len(actions) = 1 /\ actions[1].action_type = "pass"

\* an end of get_legal_actions that returns the list as it is and never passes
auto_pass_never(g, legal) == [g EXCEPT !.actions = legal, !.ret = "list"]

\* the end of get_legal_actions: "auto-pass if only action is passing priority"
auto_pass(g, legal) ==
    IF only_pass(legal)
    THEN [pass_priority(g) EXCEPT !.actions = <<>>, !.ret = "list"]
    ELSE [g EXCEPT !.actions = legal, !.ret = "list"]

\* GameState.get_legal_actions; the list returned is left in g.actions
get_legal_actions(g, player) ==
    IF g.game_over THEN [g EXCEPT !.actions = <<>>, !.ret = "list"]
    ELSE IF player # g.priority THEN [g EXCEPT !.actions = <<>>, !.ret = "list"]
    ELSE auto_pass(g, legal_actions(g, player))

\* a pass that hands the priority over and never advances the phase
pass_priority_handover(g) == [g EXCEPT !.priority = 1 - g.priority]

\* GameState.pass_priority
pass_priority(g) ==
    IF g.stack = <<>>
    THEN LET next_priority == 1 - g.priority
         IN  IF next_priority = g.active THEN next_phase(g)
             ELSE [g EXCEPT !.priority = next_priority]
    ELSE [g EXCEPT !.priority = 1 - g.priority]

\* an assignment to self.phase, kept in the log of the call with the active
\* player and the turn number it was made under
set_phase(g, ph) ==
    [g EXCEPT !.phase = ph,
              !.log = Append(@, [phase |-> ph, active |-> g.active,
                                 turn_number |-> g.turn_number])]

\* a _next_phase that assigns the next phase and does not enter it
next_phase_not_entered(g) ==
    IF PhaseIndex(g.phase) + 1 <= Len(Phase)
    THEN set_phase(g, Phase[PhaseIndex(g.phase) + 1])
    ELSE end_turn(g)

\* GameState._next_phase
next_phase(g) ==
    LET current_index == PhaseIndex(g.phase)
    IN  IF current_index + 1 <= Len(Phase)
        THEN enter_phase(set_phase(g, Phase[current_index + 1]))
        ELSE end_turn(g)

\* "if not actions: self._next_phase()" of _enter_phase
advance_if_none(g) == IF g.actions = <<>> THEN next_phase(g) ELSE g

\* the phase-specific actions of _enter_phase
phase_actions(g) ==
    CASE g.phase = "untap" -> next_phase(untap_step(g, g.active))
      [] g.phase = "upkeep" ->
            advance_if_none(get_legal_actions(upkeep_step(g, g.active), g.priority))
      [] g.phase = "draw" ->
            LET should_draw == ~(g.turn_number = 1
                                   /\ g.players[g.active].turn_count = 0)
            IN  next_phase(IF should_draw THEN draw_step(g, g.active) ELSE g)
      [] g.phase = "combat_begin" ->
            advance_if_none(get_legal_actions(
                [g EXCEPT !.attacks_declared = FALSE, !.blocks_declared = FALSE],
                g.active))
      [] g.phase = "declare_blockers" -> [g EXCEPT !.priority = 1 - g.active]
      [] g.phase = "combat_damage" -> next_phase(resolve_combat_damage(g))
      [] g.phase = "combat_end" -> next_phase(end_combat(g))
      [] g.phase = "end" -> advance_if_none(get_legal_actions(g, g.priority))
      [] g.phase = "cleanup" -> end_turn(cleanup_step(g, g.active))
      [] OTHER -> g

\* an _enter_phase that leaves the priority where it is
enter_phase_keeping_priority(g) == phase_actions(g)

\* GameState._enter_phase
enter_phase(g) ==
    phase_actions(IF g.phase # "declare_blockers"
                  THEN [g EXCEPT !.priority = g.active]
                  ELSE g)

\* GameState._start_turn
gs_start_turn(g) ==
    enter_phase([set_phase(start_turn(g, g.active), "untap")
                    EXCEPT !.priority = g.active])

\* an end of turn after which the same player takes the next turn
end_turn_same_player(g) ==
    gs_start_turn([g EXCEPT !.priority = g.active, !.turn_number = @ + 1])

\* GameState._end_turn
end_turn(g) ==
    gs_start_turn([g EXCEPT !.active = 1 - g.active,
                            !.priority = 1 - g.active,
                            !.turn_number = @ + 1])

\* Action.execute: the closure the generator made for the action
action_execute(g, action) ==
    IF action.action_type = "pass" THEN [pass_priority(g) EXCEPT !.ret = "None"]
    ELSE IF action.action_type = "play_land"
    THEN action_play_land(g, action.player, action.card)
    ELSE IF action.action_type = "cast_spell"
    THEN action_cast_spell(g, action.player, action.card)
    ELSE IF action.action_type = "activate_ability"
    THEN activate(g, action.card, action.ability)
    ELSE IF action.action_type = "declare_attacks"
    THEN declare_attacks(g, action.player, action.attackers)
    ELSE declare_blocks(g, action.player, action.attackers)

\* the end of the try block of execute_action: the auto-pass
pass_if_no_more_actions(g) ==
    IF ~g.game_over /\ only_pass(legal_actions(g, g.priority))
    THEN pass_priority(g)
    ELSE g

\* the try block of execute_action after the triggers were resolved
after_triggers(g) ==
    IF g.exc # "" THEN g
    ELSE pass_if_no_more_actions(check_win_conditions(check_state_based_actions(
             [g EXCEPT !.tl.at_sba = Append(@, Len(g.pending_triggers))])))

\* the try block of execute_action after the action ran
after_action(g) == IF g.exc # "" THEN g ELSE after_triggers(resolve_triggers(g))

\* execute_action without its except clause
returned_uncaught(g) == IF g.exc # "" THEN g ELSE [g EXCEPT !.ret = "True"]

\* the return of execute_action: False from the except clause, else True
returned(g) ==
    IF g.exc # "" THEN [g EXCEPT !.exc = "", !.ret = "False"]
    ELSE [g EXCEPT !.ret = "True"]

\* GameState.execute_action
execute_action(g, player, action) ==
    IF g.game_over THEN [g EXCEPT !.ret = "False"]
    ELSE IF player # g.priority THEN [g EXCEPT !.ret = "False"]
    ELSE IF ~is_action_legal(action, g, player) THEN [g EXCEPT !.ret = "False"]
    ELSE returned(after_action(action_execute(g, action)))

\* ---------------------------------------------------------------- the driver

\* the engine state as one record; rnd are the numbers random.randint will
\* return, resp the answer of the agent to a prompt, exc the exception in flight
G(rnd, resp) ==
    [cards |-> cards, players |-> players, phase |-> phase,
     turn_number |-> turn_number, active |-> active, priority |-> priority,
     stack |-> stack, game_over |-> game_over, winner |-> winner,
     pending_triggers |-> pending_triggers, attacks_declared |-> attacks_declared,
     blocks_declared |-> blocks_declared, exiled_by_source |-> exiled_by_source,
     ret |-> ret, actions |-> <<>>, rnd |-> rnd, resp |-> resp, exc |-> "",
     prompts |-> 0, tl |-> NoTriggersLog,
     log |-> <<[phase |-> phase, active |-> active, turn_number |-> turn_number]>>]

Set(g) ==
    /\ cards' = g.cards
    /\ players' = g.players
    /\ phase' = g.phase
    /\ turn_number' = g.turn_number
    /\ active' = g.active
    /\ priority' = g.priority
    /\ stack' = g.stack
    /\ game_over' = g.game_over
    /\ winner' = g.winner
    /\ pending_triggers' = g.pending_triggers
    /\ attacks_declared' = g.attacks_declared
    /\ blocks_declared' = g.blocks_declared
    /\ exiled_by_source' = g.exiled_by_source
    /\ ret' = IF g.exc # "" THEN "raised" ELSE g.ret
    /\ prompts' = g.prompts
    /\ phase_log' = g.log
    /\ triggers_log' = g.tl
    /\ UNCHANGED <<mulligan_counts, mulliganing_players>>

NoAction == Action("", 0, 0, 0, <<>>)

Call(op, player, action, card, targets) ==
    [op |-> op, player |-> player, action |-> action, card |-> card,
     targets |-> targets]

Range(s) == {s[i] : i \in 1 .. Len(s)}

OnBattlefield == Range(players[0].battlefield) \cup Range(players[1].battlefield)

\* the driver plays on until the last turn of the model
InBound == turn_number <= setup.last_turn

\* the driver keeps the list it got
Got(g) ==
    /\ Set(g)
    /\ offered' = IF g.actions # <<>> THEN g.actions ELSE offered

GetLegalActions(p) ==
    /\ InBound
    /\ Got(get_legal_actions(G(<<>>, 0), p))
    /\ last' = Call("get_legal_actions", p, NoAction, 0, <<>>)
    /\ UNCHANGED setup

ExecuteAction(a) ==
    /\ InBound
    /\ Set(execute_action(G(<<>>, 0), a.player, a))
    /\ last' = Call("execute_action", a.player, a, 0, <<>>)
    /\ UNCHANGED <<offered, setup>>

PassPriority ==
    /\ InBound
    /\ Set([pass_priority(G(<<>>, 0)) EXCEPT !.ret = "None"])
    /\ last' = Call("pass_priority", priority, NoAction, 0, <<>>)
    /\ UNCHANGED <<offered, setup>>

CastSpellWithTargets(p, spell, target_ids) ==
    /\ InBound
    /\ Set(cast_spell_with_targets(G(<<>>, 0), p, spell, target_ids))
    /\ last' = Call("cast_spell_with_targets", p, NoAction, spell, target_ids)
    /\ UNCHANGED <<offered, setup>>

ResolveTopOfStack(resp) ==
    /\ InBound
    /\ Set(resolve_top_of_stack(G(<<>>, resp)))
    /\ last' = Call("resolve_top_of_stack", 0, NoAction,
                    IF stack = <<>> THEN 0 ELSE stack[Len(stack)].source_card,
                    IF stack = <<>> THEN <<>> ELSE stack[Len(stack)].targets)
    /\ UNCHANGED <<offered, setup>>

SacrificePermanent(p, permanent) ==
    /\ InBound
    /\ Len(players[0].graveyard) + Len(players[1].graveyard) < MaxGraveyard
    /\ Set(sacrifice_permanent(G(<<>>, 0), p, permanent))
    /\ last' = Call("sacrifice_permanent", p, NoAction, permanent, <<>>)
    /\ UNCHANGED <<offered, setup>>

\* the calls of a driver that plays through GameState alone
NextGame ==
    \/ \E p \in PlayerIds : GetLegalActions(p)
    \/ \E a \in Range(offered) : ExecuteAction(a)
    \/ PassPriority

\* the calls of a driver that also uses the spell system and the players
Next ==
    \/ NextGame
    \/ \E p \in PlayerIds : \E spell \in Range(players[p].hand) :
         \E target_ids \in {<<>>} \cup {<<t>> : t \in OnBattlefield} :
            CastSpellWithTargets(p, spell, target_ids)
    \/ \E resp \in {0} \cup OnBattlefield : ResolveTopOfStack(resp)
    \/ \E p \in PlayerIds : \E permanent \in Range(players[p].battlefield) :
         SacrificePermanent(p, permanent)

\* ---------------------------------------------------------------- a new game

\* the cards of a deck list, put into the zone they are set up in
Deal(deck, hands, libraries) ==
    [c \in DOMAIN deck |->
        IF \E p \in PlayerIds : InSeq(c, hands[p])
        THEN [deck[c] EXCEPT !.zone = "hand"] ELSE deck[c]]

\* GameState.__init__ on players whose opening hands were drawn
NewGame(deck, hands, libraries) ==
    gs_start_turn(
        [cards |-> Deal(deck, hands, libraries),
         players |-> [p \in PlayerIds |->
                         [Player EXCEPT !.hand = hands[p], !.library = libraries[p]]],
         phase |-> "untap", turn_number |-> 1, active |-> 0, priority |-> 0,
         stack |-> <<>>, game_over |-> FALSE, winner |-> <<>>,
         pending_triggers |-> <<>>, attacks_declared |-> FALSE,
         blocks_declared |-> FALSE,
         exiled_by_source |-> [c \in DOMAIN deck |-> <<>>],
         ret |-> "None", actions |-> <<>>, rnd |-> <<>>, resp |-> 0, exc |-> "",
         tl |-> NoTriggersLog, log |-> <<>>])

Start(g, deck_size, library_size, last_turn, life) ==
    /\ cards = g.cards
    /\ players = g.players
    /\ phase = g.phase
    /\ turn_number = g.turn_number
    /\ active = g.active
    /\ priority = g.priority
    /\ stack = g.stack
    /\ game_over = g.game_over
    /\ winner = g.winner
    /\ pending_triggers = g.pending_triggers
    /\ attacks_declared = g.attacks_declared
    /\ blocks_declared = g.blocks_declared
    /\ exiled_by_source = g.exiled_by_source
    /\ ret = "None"
    /\ offered = <<>>
    /\ last = Call("init", 0, NoAction, 0, <<>>)
    /\ setup = [deck_size |-> deck_size, library_size |-> library_size,
                 last_turn |-> last_turn, life |-> life]
    /\ mulligan_counts = [p \in PlayerIds |-> 0]
    /\ mulliganing_players = {}
    /\ prompts = 0
    /\ phase_log = g.log
    /\ triggers_log = NoTriggersLog

\* two small decks: islands, plains, a Galeblade and a Drone
SmallDeck ==
    <<Island(0), IllvoiGaleblade(0), Plains(0),
      Plains(1), DockworkerDrone(1)>>

\* the opening hands and libraries the games of the model start from
Setups ==
    {[hands |-> <<<<1, 2>>, <<4>>>>, libraries |-> <<<<3>>, <<5>>>>],
     [hands |-> <<<<1, 2>>, <<4, 5>>>>, libraries |-> <<<<3>>, <<>>>>]}

Init ==
    \E s \in Setups :
        Start(NewGame(SmallDeck,
                      [p \in PlayerIds |-> s.hands[p + 1]],
                      [p \in PlayerIds |-> s.libraries[p + 1]]),
              [p \in PlayerIds |-> Len(s.hands[p + 1]) + Len(s.libraries[p + 1])],
              [p \in PlayerIds |-> Len(s.libraries[p + 1])], MaxTurn, StartingLife)

Spec == Init /\ [][NextGame]_vars

\* ---------------------------------------------------------------- paying for a spell

MaxLands == 2
MaxSymbols == 2

\* a position of a game: the engine state with the zones given
Position(cs, ps, ph, turn, act) ==
    [cards |-> cs, players |-> ps, phase |-> ph, turn_number |-> turn,
     active |-> act, priority |-> act, stack |-> <<>>, game_over |-> FALSE,
     winner |-> <<>>, pending_triggers |-> <<>>, attacks_declared |-> FALSE,
     blocks_declared |-> FALSE, exiled_by_source |-> [c \in DOMAIN cs |-> <<>>],
     ret |-> "None", actions |-> <<>>, rnd |-> <<>>, resp |-> 0, exc |-> "",
     tl |-> NoTriggersLog, log |-> <<>>]

\* a permanent that has been on the battlefield since an earlier turn
Permanent(card, tapped) ==
    [card EXCEPT !.zone = "battlefield", !.is_tapped = tapped,
                 !.summoning_sick = FALSE]

InHand(card) == [card EXCEPT !.zone = "hand"]

LandNames == {"Plains", "Island", "Wastes"}

LandCard(name, owner) ==
    IF name = "Plains" THEN Plains(owner)
    ELSE IF name = "Island" THEN Island(owner)
    ELSE OtherLand(owner)

\* the sequences over S of a length up to n
SeqsUpTo(S, n) == UNION {[1 .. k -> S] : k \in 0 .. n}

CostSymbols == {"1", "2", "W", "U", "C"}

\* the first player with the given lands, pool and one spell in hand
ManaPosition(lands, tapped, white, colorless, symbols, type) ==
    LET n == Len(lands)
    IN  Position(
            [c \in 1 .. n + 1 |->
                IF c <= n THEN Permanent(LandCard(lands[c], 0), tapped[c])
                ELSE InHand(Card("Spell", symbols, {type}, 1, 1, <<>>, 0))],
            [p \in PlayerIds |->
                IF p = 0
                THEN [Player EXCEPT !.battlefield = [c \in 1 .. n |-> c],
                                    !.hand = <<n + 1>>,
                                    !.mana_pool = [EmptyPool EXCEPT
                                                      !["white"] = white,
                                                      !["colorless"] = colorless],
                                    !.turn_count = 2]
                ELSE [Player EXCEPT !.turn_count = 1]],
            "main1", 3, 0)

InitMana ==
    \E lands \in SeqsUpTo(LandNames, MaxLands) :
      \E tapped \in [1 .. Len(lands) -> BOOLEAN] :
        \E white \in 0 .. MaxPool, colorless \in 0 .. MaxPool :
          \E symbols \in SeqsUpTo(CostSymbols, MaxSymbols) :
            \E type \in {"creature", "instant"} :
               Start(ManaPosition(lands, tapped, white, colorless, symbols, type),
                     [p \in PlayerIds |-> IF p = 0 THEN Len(lands) + 1 ELSE 0],
                     [p \in PlayerIds |-> 0], 3, StartingLife)

\* the spell of the position is paid for once, in one of the three ways
TapLandsForSpell(p, spell) ==
    /\ last.op = "init"
    /\ Set(tap_lands_for_spell(G(<<>>, 0), p, spell))
    /\ last' = Call("tap_lands_for_spell", p, NoAction, spell, <<>>)
    /\ UNCHANGED <<offered, setup>>

CastSpell(p, spell) ==
    /\ last.op = "init"
    /\ Set(cast_spell(G(<<>>, 0), p, spell))
    /\ last' = Call("cast_spell", p, NoAction, spell, <<>>)
    /\ UNCHANGED <<offered, setup>>

CastSpellOnce(p, spell) ==
    /\ last.op = "init"
    /\ CastSpellWithTargets(p, spell, <<>>)

NextMana ==
    \/ \E p \in PlayerIds : \E spell \in Range(players[p].hand) :
         TapLandsForSpell(p, spell)
    \/ \E p \in PlayerIds : \E spell \in Range(players[p].hand) :
         CastSpell(p, spell)
    \/ \E p \in PlayerIds : \E spell \in Range(players[p].hand) :
         CastSpellOnce(p, spell)

SpecMana == InitMana /\ [][NextMana]_vars

\* ---------------------------------------------------------------- a game under way

BoardTurn == 11

\* a Dockworker Drone that entered with its counter on an earlier turn
DroneInPlay(owner) == Permanent(add_counter(DockworkerDrone(owner), "+1/+1", 1), FALSE)

\* the first player has tapped six of seven Plains and cast a Banishing Light at
\* the Drone of the second; three white mana and a second Banishing Light are left
LightsCards ==
    [c \in 1 .. 12 |->
        IF c <= 6 THEN Permanent(Plains(0), TRUE)
        ELSE IF c = 7 THEN Permanent(Plains(0), FALSE)
        ELSE IF c = 8 THEN [BanishingLight(0) EXCEPT !.zone = "stack"]
        ELSE IF c = 9 THEN InHand(BanishingLight(0))
        ELSE IF c = 10 THEN OtherLand(0)
        ELSE IF c = 11 THEN DroneInPlay(1)
        ELSE DualSunTechnique(1)]

LightsBoard ==
    [Position(LightsCards,
              [p \in PlayerIds |->
                  IF p = 0
                  THEN [Player EXCEPT !.battlefield = <<1, 2, 3, 4, 5, 6, 7>>,
                                      !.hand = <<9>>, !.library = <<10>>,
                                      !.mana_pool = [EmptyPool EXCEPT !["white"] = 3],
                                      !.has_played_land_this_turn = TRUE,
                                      !.turn_count = 6]
                  ELSE [Player EXCEPT !.battlefield = <<11>>, !.library = <<12>>,
                                      !.turn_count = 5]],
              "main1", BoardTurn, 0)
     EXCEPT !.stack = <<[source_card |-> 8, caster |-> 0, targets |-> <<11>>]>>]

\* the first player has a Drone, a Galeblade and a relic whose ability fails; the
\* second player is at the given life and has no permanents
CombatCards ==
    <<DroneInPlay(0), Permanent(IllvoiGaleblade(0), FALSE),
      Permanent(FaultyRelic(0), FALSE), OtherLand(0), DualSunTechnique(1)>>

CombatBoard(life) ==
    Position(CombatCards,
             [p \in PlayerIds |->
                 IF p = 0
                 THEN [Player EXCEPT !.battlefield = <<1, 2, 3>>,
                                     !.library = <<4>>,
                                     !.has_played_land_this_turn = TRUE,
                                     !.turn_count = 6]
                 ELSE [Player EXCEPT !.life = life, !.library = <<5>>,
                                     !.turn_count = 5]],
             "main1", BoardTurn, 0)

InitLights ==
    Start(LightsBoard, [p \in PlayerIds |-> IF p = 0 THEN 10 ELSE 2],
          [p \in PlayerIds |-> 1], BoardTurn, StartingLife)

InitCombat ==
    \E life \in {1, StartingLife} :
        Start(CombatBoard(life), [p \in PlayerIds |-> IF p = 0 THEN 4 ELSE 1],
              [p \in PlayerIds |-> 1], BoardTurn, life)

SpecLights == InitLights /\ [][Next]_vars

SpecCombat == InitCombat /\ [][Next]_vars

\* each player has tapped a Plains for mana and has a creature in hand that
\* enters with a -1/-1 counter
DeathCards ==
    <<Permanent(Plains(0), TRUE), InHand(BlightedRecruit(0)), OtherLand(0),
      Permanent(Plains(1), TRUE), InHand(BlightedRecruit(1)), DualSunTechnique(1)>>

DeathBoard ==
    Position(DeathCards,
             [p \in PlayerIds |->
                 IF p = 0
                 THEN [Player EXCEPT !.battlefield = <<1>>, !.hand = <<2>>,
                                     !.library = <<3>>,
                                     !.mana_pool = [EmptyPool EXCEPT !["white"] = 1],
                                     !.has_played_land_this_turn = TRUE,
                                     !.turn_count = 6]
                 ELSE [Player EXCEPT !.battlefield = <<4>>, !.hand = <<5>>,
                                     !.library = <<6>>,
                                     !.mana_pool = [EmptyPool EXCEPT !["white"] = 1],
                                     !.turn_count = 5]],
             "main1", BoardTurn, 0)

InitDeath ==
    Start(DeathBoard, [p \in PlayerIds |-> 3], [p \in PlayerIds |-> 1],
          BoardTurn, StartingLife)

SpecDeath == InitDeath /\ [][Next]_vars

\* ---------------------------------------------------------------- properties

PaymentOps == {"tap_lands_for_spell", "cast_spell", "cast_spell_with_targets"}

\* the feasibility check for the spell of a call, in the state before the call
Feasible(call) ==
    can_pay_mana_cost(G(<<>>, 0), call.player, cards[call.card].mana_cost)

NoLandNewlyTapped == \A c \in DOMAIN cards : cards'[c].is_tapped => cards[c].is_tapped

TappedFlagsUnchanged == \A c \in DOMAIN cards : cards'[c].is_tapped = cards[c].is_tapped

\* C6: when the feasibility check is false for the cost of the spell, each of
\* tap_lands_for_spell, cast_spell and cast_spell_with_targets returns false and
\* leaves every tapped flag, the mana pool of the player and the hand as they were.
C6_InfeasibleLeavesAll ==
    [][(last'.op \in PaymentOps /\ ~Feasible(last'))
         => /\ ret' = "False"
            /\ TappedFlagsUnchanged
            /\ players'[last'.player].mana_pool = players[last'.player].mana_pool
            /\ players'[last'.player].hand = players[last'.player].hand]_vars

\* an infeasible spell was refused although a land was untapped and mana was in the pool
C6_Witness ==
    /\ last.op \in PaymentOps
    /\ ret = "False"
    /\ ~Feasible(last)
    /\ \E c \in Range(players[last.player].battlefield) :
          is_land(cards[c]) /\ ~cards[c].is_tapped
    /\ total_mana(players[last.player].mana_pool) > 0

\* C7: whenever cast_spell or cast_spell_with_targets returns false, no land has
\* been newly tapped, the mana pool is unchanged and the card is still in the hand.
C7_FailedCastLeavesAll ==
    [][(last'.op \in {"cast_spell", "cast_spell_with_targets"} /\ ret' = "False")
         => /\ NoLandNewlyTapped
            /\ players'[last'.player].mana_pool = players[last'.player].mana_pool
            /\ InSeq(last'.card, players'[last'.player].hand)]_vars

GameStateOps == {"get_legal_actions", "execute_action", "pass_priority"}

\* C2: whenever get_legal_actions, execute_action or pass_priority has returned,
\* a player at zero life or less (a draw from an empty library included) means
\* the game is over.
C2_DeadPlayerEndsGame ==
    last.op \in GameStateOps
        => ((\E p \in PlayerIds : players[p].life <= 0) => game_over)

\* the second of two passes in a row: the active player passed, nothing was
\* called since, the stack is empty and the other player passes now
SecondPass ==
    /\ last.op = "pass_priority"
    /\ last.player = active
    /\ priority = 1 - active
    /\ stack = <<>>
    /\ last'.op = "pass_priority"

\* C3 as stated: after the second of two passes in a row on an empty stack the
\* phase is exactly the successor of the phase the passes were made in.
C3_ImmediateSuccessor ==
    [][SecondPass
         => /\ PhaseIndex(phase) < Len(Phase)
            /\ phase' = Phase[PhaseIndex(phase) + 1]
            /\ turn_number' = turn_number]_vars

\* the phases the engine always waits in, and those it never waits in
AlwaysResting == {"main1", "declare_attackers", "declare_blockers", "main2"}
NeverResting == {"untap", "draw", "combat_damage", "combat_end", "cleanup"}

\* the phases gone through by a step, the phase it ends in left out
PassedThrough ==
    IF turn_number' = turn_number
    THEN {Phase[i] : i \in PhaseIndex(phase) + 1 .. PhaseIndex(phase') - 1}
    ELSE {Phase[i] : i \in PhaseIndex(phase) + 1 .. Len(Phase)}
         \cup {Phase[i] : i \in 1 .. PhaseIndex(phase') - 1}

\* C3: the second of two passes in a row on an empty stack advances the game to
\* the first later phase the engine waits in: it leaves the phase, goes through
\* no phase the engine always waits in and does not end in a phase the engine
\* never waits in.
C3_NextRestingPhase ==
    [][SecondPass
         => /\ turn_number' \in {turn_number, turn_number + 1}
            /\ turn_number' = turn_number => PhaseIndex(phase') > PhaseIndex(phase)
            /\ PassedThrough \cap AlwaysResting = {}
            /\ phase' \notin NeverResting]_vars

\* the first player passed in the first main phase of the first turn, the second
\* passed after, and the game stands in the declare attackers phase
C3_Witness ==
    /\ turn_number = 1
    /\ phase = "declare_attackers"
    /\ last.op = "pass_priority"
    /\ last.player = 1 - active
    /\ offered = <<>>

\* C5: the first player draws no card in the draw phase of the first turn: after
\* the construction of the game the hand and the library of the first player
\* have the sizes they were set up with.
C5_FirstPlayerSkipsFirstDraw ==
    (last.op = "init" /\ turn_number = 1)
        => /\ Len(players[0].library) = setup.library_size[0]
           /\ Len(players[0].hand) = setup.deck_size[0] - setup.library_size[0]

\* the entries of a list that are cards of the owner
Owned(list, owner) == Len(SelectSeq(list, LAMBDA c : cards[c].owner = owner))

\* the entries of the stack whose card is a card of the owner
OwnedOnStack(owner) ==
    Len(SelectSeq(stack, LAMBDA o : cards[o.source_card].owner = owner))

\* the entries of the zones of all players and of the stack that are cards of the owner
ZoneEntries(owner) ==
    LET In(p) == Owned(players[p].library, owner) + Owned(players[p].hand, owner)
                 + Owned(players[p].battlefield, owner)
                 + Owned(players[p].graveyard, owner)
                 + Owned(players[p].exile, owner)
    IN  In(0) + In(1) + OwnedOnStack(owner)

\* C1: for each player the entries of library, hand, battlefield, graveyard and
\* exile plus the entries of the stack owned by the player number the cards of the
\* deck the player started with, after any sequence of engine operations.
C1_ZoneConservation ==
    \A owner \in PlayerIds : ZoneEntries(owner) = setup.deck_size[owner]

\* C4: a pass with a spell on the stack, made by the player whose pass would
\* advance the phase, pops and resolves the top of the stack, keeps the phase and
\* gives priority to the active player.
C4_PassResolvesTop ==
    [][(last'.op = "pass_priority" /\ stack # <<>> /\ priority # active)
         => /\ Len(stack') = Len(stack) - 1
            /\ phase' = phase
            /\ priority' = active]_vars

\* the action is none of those get_legal_actions lists for its player now
Stale(a) == ~InSeq(a, legal_actions(G(<<>>, 0), a.player))

\* C8: execute_action on an action of an earlier list of get_legal_actions, one
\* of whose preconditions has become false since, changes no card, zone, mana
\* pool or flag.
C8_StaleActionChangesNothing ==
    [][(last'.op = "execute_action" /\ Stale(last'.action))
         => UNCHANGED <<cards, players, stack, attacks_declared, blocks_declared,
                        game_over>>]_vars

\* the function of the ability the action activates raises
Raises(a) ==
    /\ a.action_type = "activate_ability"
    /\ cards[a.card].abilities[a.ability].effect.fn = "raise"

\* execute_action returns before its try block
Refused(a) ==
    \/ game_over
    \/ a.player # priority
    \/ ~is_action_legal(a, G(<<>>, 0), a.player)

\* C9: execute_action never raises: it returns True or False, False when the
\* game is over, when the player has no priority, when the validator rejects the
\* action and when the action routine raises; a False return does not end the game.
C9_ExecuteActionNeverRaises ==
    [][last'.op = "execute_action"
         => /\ ret' \in {"True", "False"}
            /\ Refused(last'.action) => ret' = "False"
            /\ Raises(last'.action) => ret' = "False"
            /\ ret' = "False" => game_over' = game_over]_vars

\* the ability of the relic was activated, raised, and execute_action returned False
C9_Witness ==
    /\ last.op = "execute_action"
    /\ ret = "False"
    /\ ~game_over
    /\ Raises(last.action)
    /\ cards[last.action.card].is_tapped

\* the power of the attacking creatures of the active player
AttackingPower == total_power(G(<<>>, 0), get_attackers(G(<<>>, 0), active))

\* the step leaves the declare blockers phase and so deals the combat damage
DealsCombatDamage ==
    /\ phase = "declare_blockers"
    /\ phase' # "declare_blockers"
    /\ last'.op \in {"pass_priority", "get_legal_actions", "execute_action"}

\* no life but that of the defender, no zone and no counter changes
OnlyDefenderLifeChanges ==
    /\ players'[active] = players[active]
    /\ players'[1 - active] = [players[1 - active] EXCEPT
                                  !.life = players'[1 - active].life]
    /\ \A c \in DOMAIN cards : /\ cards'[c].counters = cards[c].counters
                               /\ cards'[c].zone = cards[c].zone

DeadCreatures(p) ==
    {c \in Range(players[p].battlefield) :
        is_creature(cards[c]) /\ current_toughness(cards[c]) <= 0}

MaxMulligans == 2
MaxAnswer == 2

\* the state the mulligan phase works on; rnd is what random.sample returns
Mull(rnd) ==
    [cards |-> cards, players |-> players, mulligan_counts |-> mulligan_counts,
     rnd |-> rnd, exc |-> ""]

SetZone(cs, moved, zone) ==
    [c \in DOMAIN cs |-> IF InSeq(c, moved) THEN [cs[c] EXCEPT !.zone = zone] ELSE cs[c]]

\* DeckSystem.draw_cards: up to count cards from the top of the library
draw_cards(m, p, count) ==
    LET library == m.players[p].library
        n == Min(count, Len(library))
    IN  [m EXCEPT !.players[p].hand = @ \o SubSeq(library, 1, n),
                  !.players[p].library = SubSeq(library, n + 1, Len(library)),
                  !.cards = SetZone(@, SubSeq(library, 1, n), "hand")]

\* the orders random.shuffle can leave a list of n cards in
Orders(n) ==
    {f \in [1 .. n -> 1 .. n] : \A i, j \in 1 .. n : f[i] = f[j] => i = j}

\* DeckSystem.shuffle_deck, the library ending in the order perm
shuffle_deck(m, p, perm) ==
    [m EXCEPT !.players[p].library = [i \in 1 .. Len(@) |-> @[perm[i]]]]

\* MulliganSystem._perform_mulligan
perform_mulligan(m, p, perm) ==
    draw_cards(
        shuffle_deck(
            [m EXCEPT !.mulligan_counts[p] = @ + 1,
                      !.cards = SetZone(@, m.players[p].hand, "library"),
                      !.players[p].library = @ \o m.players[p].hand,
                      !.players[p].hand = <<>>],
            p, perm),
        p, MaxHandSize)

\* the loop of _finalize_hand over the cards the callback named: list.remove
\* raises ValueError for a card that is no longer in the hand
RECURSIVE bottom_chosen(_, _, _, _)
bottom_chosen(m, p, cards_to_bottom, i) ==
    IF i > Len(cards_to_bottom) THEN m
    ELSE IF ~InSeq(cards_to_bottom[i], m.players[p].hand)
    THEN [m EXCEPT !.exc = "ValueError"]
    ELSE bottom_chosen(
             [m EXCEPT !.players[p].hand = RemoveFirst(@, cards_to_bottom[i]),
                       !.cards[cards_to_bottom[i]].zone = "library",
                       !.players[p].library = Append(@, cards_to_bottom[i])],
             p, cards_to_bottom, i + 1)

\* what random.sample(hand, k) can return: k different cards of the hand
Samples(hand, k) ==
    {s \in [1 .. k -> Range(hand)] : \A i, j \in 1 .. k : s[i] = s[j] => i = j}

\* MulliganSystem._bottom_cards_randomly, m.rnd being the sample of
\* min(num_to_bottom, len(hand)) cards
bottom_cards_randomly(m, p, num_to_bottom) ==
    [m EXCEPT !.players[p].hand = SelectSeq(@, LAMBDA c : ~InSeq(c, m.rnd)),
              !.cards = SetZone(@, m.rnd, "library"),
              !.players[p].library = @ \o m.rnd]

\* MulliganSystem._finalize_hand without a scry callback; bottom_callback is
\* <<>> (None) or <<the list of cards the callback returns>>
finalize_hand(m, p, bottom_callback) ==
    IF m.mulligan_counts[p] > 0
    THEN IF bottom_callback # <<>>
         THEN IF /\ Len(bottom_callback[1]) = m.mulligan_counts[p]
                 /\ \A i \in 1 .. Len(bottom_callback[1]) :
                        InSeq(bottom_callback[1][i], m.players[p].hand)
              THEN bottom_chosen(m, p, bottom_callback[1], 1)
              ELSE bottom_cards_randomly(m, p, m.mulligan_counts[p])
         ELSE bottom_cards_randomly(m, p, m.mulligan_counts[p])
    ELSE m

\* the loop of _perform_callback_mulligans over the cards found in the hand:
\* the card leaves the hand and is appended to the library, then the DeckSystem
\* object is asked for an attribute Zone it does not have
RECURSIVE bottom_found(_, _, _, _)
bottom_found(m, p, cards_to_bottom, i) ==
    IF i > Len(cards_to_bottom) THEN m
    ELSE IF ~InSeq(cards_to_bottom[i], m.players[p].hand)
    THEN [m EXCEPT !.exc = "ValueError"]
    ELSE [m EXCEPT !.players[p].hand = RemoveFirst(@, cards_to_bottom[i]),
                   !.players[p].library = Append(@, cards_to_bottom[i]),
                   !.exc = "AttributeError"]

\* the keep branch of GameSetupManager._perform_callback_mulligans;
\* bottom_callback is <<>> (None) or <<the list of card ids the callback returns>>
callback_keep(m, p, bottom_callback) ==
    IF m.mulligan_counts[p] > 0 /\ bottom_callback # <<>>
    THEN IF Len(bottom_callback[1]) = m.mulligan_counts[p]
         THEN IF Len(SelectSeq(bottom_callback[1],
                               LAMBDA id : InSeq(id, m.players[p].hand)))
                     = m.mulligan_counts[p]
              THEN bottom_found(m, p, SelectSeq(bottom_callback[1],
                                   LAMBDA id : InSeq(id, m.players[p].hand)), 1)
              ELSE bottom_cards_randomly(m, p, m.mulligan_counts[p])
         ELSE bottom_cards_randomly(m, p, m.mulligan_counts[p])
    ELSE m

\* two small decks; each player has drawn the whole deck as the opening hand
MulliganCards ==
    <<Plains(0), Island(0), DockworkerDrone(0), Plains(1)>>

DeckOf(p) == IF p = 0 THEN <<1, 2, 3>> ELSE <<4>>

\* the state after initialize_starting_hands; mode is the routine that runs the
\* mulligan phase: MulliganSystem.perform_mulligan_phase or
\* GameSetupManager._perform_callback_mulligans
InitMulligan ==
    \E mode \in {"mulligan_system", "game_setup"} :
        /\ cards = SetZone(MulliganCards, DeckOf(0) \o DeckOf(1), "hand")
        /\ players = [p \in PlayerIds |-> [Player EXCEPT !.hand = DeckOf(p)]]
        /\ phase = "untap"
        /\ turn_number = 1
        /\ active = 0
        /\ priority = 0
        /\ stack = <<>>
        /\ game_over = FALSE
        /\ winner = <<>>
        /\ pending_triggers = <<>>
        /\ attacks_declared = FALSE
        /\ blocks_declared = FALSE
        /\ exiled_by_source = [c \in DOMAIN MulliganCards |-> <<>>]
        /\ ret = "None"
        /\ offered = <<>>
        /\ last = Call("init", 0, NoAction, 0, <<>>)
        /\ setup = [mode |-> mode, deck_size |-> [p \in PlayerIds |-> Len(DeckOf(p))]]
        /\ mulligan_counts = [p \in PlayerIds |-> 0]
        /\ mulliganing_players = PlayerIds
        /\ prompts = 0
        /\ phase_log = <<>>
        /\ triggers_log = NoTriggersLog

\* an exception leaves the mulligan phase with the player's decision still open
SetMull(m, p, kept) ==
    /\ cards' = m.cards
    /\ players' = m.players
    /\ mulligan_counts' = m.mulligan_counts
    /\ mulliganing_players' =
           IF kept /\ m.exc = "" THEN mulliganing_players \ {p} ELSE mulliganing_players
    /\ ret' = IF m.exc # "" THEN "raised" ELSE "None"
    /\ UNCHANGED <<phase, turn_number, active, priority, stack, game_over, winner,
                   pending_triggers, attacks_declared, blocks_declared,
                   exiled_by_source, offered, setup, prompts, phase_log,
                   triggers_log>>

\* the answers of a bottom callback: none registered, or a list of cards
BottomCallbacks ==
    {<<>>} \cup {<<answer>> : answer \in SeqsUpTo(DOMAIN MulliganCards, MaxAnswer)}

BottomSamples(p) ==
    Samples(players[p].hand, Min(mulligan_counts[p], Len(players[p].hand)))

PerformMulligan(p, perm) ==
    /\ ret # "raised"
    /\ p \in mulliganing_players
    /\ mulligan_counts[p] < MaxMulligans
    /\ SetMull(perform_mulligan(Mull(<<>>), p, perm), p, FALSE)
    /\ last' = Call("_perform_mulligan", p, NoAction, 0, <<>>)

FinalizeHand(p, bottom_callback, sample) ==
    /\ ret # "raised"
    /\ setup.mode = "mulligan_system"
    /\ p \in mulliganing_players
    /\ SetMull(finalize_hand(Mull(sample), p, bottom_callback), p, TRUE)
    /\ last' = Call("_finalize_hand", p, NoAction, 0, bottom_callback)

CallbackKeep(p, bottom_callback, sample) ==
    /\ ret # "raised"
    /\ setup.mode = "game_setup"
    /\ p \in mulliganing_players
    /\ SetMull(callback_keep(Mull(sample), p, bottom_callback), p, TRUE)
    /\ last' = Call("_perform_callback_mulligans", p, NoAction, 0, bottom_callback)

NextMulligan ==
    \/ \E p \in PlayerIds : \E perm \in Orders(setup.deck_size[p]) :
          PerformMulligan(p, perm)
    \/ \E p \in PlayerIds : \E bottom_callback \in BottomCallbacks :
          \E sample \in BottomSamples(p) : FinalizeHand(p, bottom_callback, sample)
    \/ \E p \in PlayerIds : \E bottom_callback \in BottomCallbacks :
          \E sample \in BottomSamples(p) : CallbackKeep(p, bottom_callback, sample)

SpecMulligan == InitMulligan /\ [][NextMulligan]_vars

KeepOps == {"_finalize_hand", "_perform_callback_mulligans"}

\* the cards the step appended to the library of player p
Bottomed(p) ==
    SubSeq(players'[p].library, Len(players[p].library) + 1, Len(players'[p].library))

\* C12: when a player who has taken N mulligans keeps, the step raises nothing
\* and exactly N cards move from the hand to the bottom of the library, whatever
\* the bottom callback answers and also when there is none.
C12_KeepBottomsN ==
    [][last'.op \in KeepOps =>
          /\ ret' # "raised"
          /\ Len(players'[last'.player].hand)
                 = Len(players[last'.player].hand) - mulligan_counts[last'.player]
          /\ Len(players'[last'.player].library)
                 = Len(players[last'.player].library) + mulligan_counts[last'.player]
          /\ SubSeq(players'[last'.player].library, 1,
                    Len(players[last'.player].library)) = players[last'.player].library
          /\ \A c \in Range(Bottomed(last'.player)) :
                 /\ InSeq(c, players[last'.player].hand)
                 /\ ~InSeq(c, players'[last'.player].hand)]_vars

\* ---------------------------------------------------------------- asking for targets

MaxTargets == 2

TargetCards ==
    <<Plains(0), DockworkerDrone(0), Island(1), IllvoiGaleblade(1), DockworkerDrone(1)>>

\* the lands are on the battlefield; each of the creatures is there or has died
TargetBoard(alive) ==
    Position([c \in DOMAIN TargetCards |->
                 IF is_land(TargetCards[c]) \/ c \in alive
                 THEN Permanent(TargetCards[c], FALSE)
                 ELSE [TargetCards[c] EXCEPT !.zone = "graveyard"]],
             [p \in PlayerIds |->
                 [Player EXCEPT
                     !.battlefield =
                         SelectSeq(<<1, 2, 3, 4, 5>>,
                                   LAMBDA c : /\ TargetCards[c].owner = p
                                              /\ (is_land(TargetCards[c]) \/ c \in alive)),
                     !.graveyard =
                         SelectSeq(<<1, 2, 3, 4, 5>>,
                                   LAMBDA c : /\ TargetCards[c].owner = p
                                              /\ ~is_land(TargetCards[c]) /\ c \notin alive),
                     !.turn_count = 6 - p]],
             "main1", BoardTurn, 0)

InitTargets ==
    \E alive \in SUBSET {2, 4, 5} :
        Start(TargetBoard(alive), [p \in PlayerIds |-> 2 + p], [p \in PlayerIds |-> 0],
              BoardTurn, StartingLife)

TargetFilters == {"nonland_permanent_opponent", "creature_you_control"}

\* what the prompt manager can find for the caster: no callback, a callback that
\* raises, or one that selects some ids
TargetCallbacks ==
    {<<>>, <<Raising>>}
        \cup {<<Answering(PromptResponse(ids, <<>>, <<>>, <<>>))>> :
                 ids \in SeqsUpTo(DOMAIN TargetCards, MaxTargets)}

\* one call of request_targets on the board
RequestTargets(p, target_filter, num_targets, callback) ==
    /\ last.op = "init"
    /\ Set([G(<<>>, 0) EXCEPT
               !.ret = "list",
               !.exc = IF request_targets(G(<<>>, 0), p, target_filter,
                                          num_targets, callback).ok
                       THEN "" ELSE "TargetingError",
               !.prompts = IF request_targets(G(<<>>, 0), p, target_filter,
                                              num_targets, callback).prompted
                           THEN 1 ELSE 0])
    /\ last' = [op |-> "request_targets", player |-> p, action |-> NoAction,
                card |-> 0, targets |-> <<>>, target_filter |-> target_filter,
                num_targets |-> num_targets, callback |-> callback]
    /\ UNCHANGED <<offered, setup>>

NextTargets ==
    \E p \in PlayerIds : \E target_filter \in TargetFilters :
        \E num_targets \in 0 .. MaxTargets : \E callback \in TargetCallbacks :
            RequestTargets(p, target_filter, num_targets, callback)

SpecTargets == InitTargets /\ [][NextTargets]_vars

\* the permanents the filter of the last request_targets is satisfied by
Candidates == get_valid_targets(G(<<>>, 0), last.player, last.target_filter)

\* C13: request_targets raises TargetingError without asking the prompt manager
\* when no permanent on either battlefield satisfies the filter, and when fewer
\* permanents satisfy it than targets were requested.
C13_NoCandidatesNoPrompt ==
    (last.op = "request_targets"
        /\ (Candidates = <<>> \/ Len(Candidates) < last.num_targets))
    => ret = "raised" /\ prompts = 0

\* a caster with an answering callback asks for one target no permanent can be
C13_Witness ==
    /\ last.op = "request_targets"
    /\ Candidates = <<>>
    /\ last.num_targets = 1
    /\ last.callback # <<>>
    /\ ~last.callback[1].raises
    /\ last.callback[1].response.selected_ids # <<>>
    /\ ret = "raised"
    /\ prompts = 0

\* ---------------------------------------------------------------- Banishing Light without a target

\* the zone lists that hold card c, over both players and the stack
ZonesHolding(c) ==
    Len(SelectSeq(stack, LAMBDA o : o.source_card = c))
    + Len(SelectSeq(players[0].library \o players[0].hand \o players[0].battlefield
                    \o players[0].graveyard \o players[0].exile
                    \o players[1].library \o players[1].hand \o players[1].battlefield
                    \o players[1].graveyard \o players[1].exile,
                    LAMBDA x : x = c))

\* the top of the stack is a Banishing Light without targets, and its caster's
\* opponent controls no nonland permanent
LightWithoutTarget ==
    /\ stack # <<>>
    /\ cards[stack[Len(stack)].source_card].name = "Banishing Light"
    /\ stack[Len(stack)].targets = <<>>
    /\ get_valid_targets(G(<<>>, 0), stack[Len(stack)].caster,
                         "nonland_permanent_opponent") = <<>>

\* C14: a Banishing Light that resolves without targets while no opponent
\* controls a nonland permanent ends in its caster's graveyard and in no other
\* zone, the resolution returns False, and the prompt manager is not asked.
C14_NoTargetToGraveyard ==
    [][(last'.op = "resolve_top_of_stack" /\ LightWithoutTarget) =>
          /\ ret' = "False"
          /\ prompts' = 0
          /\ players'[stack[Len(stack)].caster].graveyard
                 = Append(players[stack[Len(stack)].caster].graveyard,
                          stack[Len(stack)].source_card)
          /\ cards'[stack[Len(stack)].source_card].zone = "graveyard"
          /\ stack' = SubSeq(stack, 1, Len(stack) - 1)
          /\ \A p \in PlayerIds :
                 /\ players'[p].battlefield = players[p].battlefield
                 /\ players'[p].hand = players[p].hand
                 /\ players'[p].library = players[p].library
                 /\ players'[p].exile = players[p].exile
                 /\ (p # stack[Len(stack)].caster
                        => players'[p].graveyard = players[p].graveyard)]_vars

\* a Banishing Light cast without targets has resolved into the graveyard while
\* the opponent had no nonland permanent
C14_Witness ==
    /\ last.op = "resolve_top_of_stack"
    /\ last.card # 0
    /\ cards[last.card].name = "Banishing Light"
    /\ last.targets = <<>>
    /\ get_valid_targets(G(<<>>, 0), cards[last.card].owner,
                         "nonland_permanent_opponent") = <<>>
    /\ ret = "False"
    /\ prompts = 0
    /\ ZonesHolding(last.card) = 1
    /\ InSeq(last.card, players[cards[last.card].owner].graveyard)

\* ---------------------------------------------------------------- the order of the phases

\* one assignment to the phase: to the successor within the turn, and from
\* cleanup to the untap step of the other player's turn, the next in number
PhaseStep(a, b) ==
    IF a.phase = "cleanup"
    THEN b.phase = "untap" /\ b.active = 1 - a.active
            /\ b.turn_number = a.turn_number + 1
    ELSE b.phase = Phase[PhaseIndex(a.phase) + 1] /\ b.active = a.active
            /\ b.turn_number = a.turn_number

\* C15: the phase changes only to its immediate successor in the order untap,
\* upkeep, draw, main1, combat_begin, declare_attackers, declare_blockers,
\* combat_damage, combat_end, main2, end, cleanup; the only wrap is from cleanup
\* to untap, and exactly there the active player flips and the turn number
\* increases by one.
C15_PhaseSuccessor ==
    /\ \A i \in 1 .. Len(phase_log) - 1 : PhaseStep(phase_log[i], phase_log[i + 1])
    /\ phase_log # <<>> =>
          phase_log[Len(phase_log)]
              = [phase |-> phase, active |-> active, turn_number |-> turn_number]

\* one call has taken the game through cleanup into the other player's turn
C15_Witness ==
    \E i \in 1 .. Len(phase_log) - 1 :
        /\ phase_log[i].phase = "cleanup"
        /\ phase_log[i + 1].phase = "untap"
        /\ phase_log[i + 1].active = 1 - phase_log[i].active
        /\ phase_log[i + 1].turn_number = phase_log[i].turn_number + 1

\* ---------------------------------------------------------------- one declaration per combat

\* the declarations a driver can come up with: the ones it was offered and, for
\* each player, one with no creature and one with each creature on a battlefield
Declarations(kind) ==
    {a \in Range(offered) : a.action_type = kind}
        \cup {Action(kind, p, 0, 0, attackers) :
                 p \in PlayerIds,
                 attackers \in {<<>>} \cup {<<c>> : c \in OnBattlefield}}

\* neither the generator offers nor the validator accepts a declaration
Closed(kind) ==
    \A p \in PlayerIds :
        /\ \A i \in 1 .. Len(action_generator_get_legal_actions(G(<<>>, 0), p)) :
               action_generator_get_legal_actions(G(<<>>, 0), p)[i].action_type # kind
        /\ \A a \in Declarations(kind) : ~is_action_legal(a, G(<<>>, 0), p)

\* the call that made the step entered the beginning of combat
EntersCombat ==
    \E i \in 2 .. Len(phase_log') : phase_log'[i].phase = "combat_begin"

Declared(kind) ==
    /\ last'.op = "execute_action"
    /\ last'.action.action_type = kind
    /\ ret' = "True"

\* C16: both declaration flags are false after every entry to combat_begin; a
\* flag that is set stays set until the next entry to combat_begin; while it is
\* set the generator does not offer and the validator does not accept the
\* declaration; so a successful declare_attacks or declare_blocks finds its flag
\* clear and sets it, at most once per combat.
C16_OneDeclarationPerCombat ==
    /\ [](attacks_declared => Closed("declare_attacks"))
    /\ [](blocks_declared => Closed("declare_blocks"))
    /\ [][/\ EntersCombat => ~attacks_declared' /\ ~blocks_declared'
          /\ (attacks_declared /\ ~attacks_declared') => EntersCombat
          /\ (blocks_declared /\ ~blocks_declared') => EntersCombat
          /\ Declared("declare_attacks") => ~attacks_declared /\ attacks_declared'
          /\ Declared("declare_blocks") => ~blocks_declared /\ blocks_declared']_vars

\* after a declaration of attackers a second one was tried and refused
C16_Witness ==
    /\ attacks_declared
    /\ last.op = "execute_action"
    /\ last.action.action_type = "declare_attacks"
    /\ ret = "False"

\* ---------------------------------------------------------------- one land per turn

\* the first player opens with two lands in hand
InitLand ==
    Start(NewGame(SmallDeck, [p \in PlayerIds |-> IF p = 0 THEN <<1, 3>> ELSE <<4>>],
                  [p \in PlayerIds |-> IF p = 0 THEN <<2>> ELSE <<5>>]),
          [p \in PlayerIds |-> 3 - p], [p \in PlayerIds |-> 1], MaxTurn, StartingLife)

SpecLand == InitLand /\ [][NextGame]_vars

\* the lands the step moves from the hand of player p to p's battlefield
LandsPlayed(p) ==
    {c \in Range(players[p].hand) :
        is_land(cards[c]) /\ InSeq(c, players'[p].battlefield)}

\* the call that made the step started a turn of player p
TurnStarts(p) ==
    \E i \in 2 .. Len(phase_log') :
        phase_log'[i].phase = "untap" /\ phase_log'[i].active = p

WinnerCards(library) ==
    <<DroneInPlay(0), Permanent(IllvoiGaleblade(0), FALSE),
      IF library = <<>> THEN [OtherLand(0) EXCEPT !.zone = "graveyard"] ELSE OtherLand(0),
      DualSunTechnique(1)>>

\* the second main phase of the second player's turn before the turn of the
\* board: the first player has two creatures and a library of one card or none,
\* the second player is at the given life and has no permanents
WinnerBoard(life, library) ==
    Position(WinnerCards(library),
             [p \in PlayerIds |->
                 IF p = 0
                 THEN [Player EXCEPT !.battlefield = <<1, 2>>,
                                     !.library = library,
                                     !.graveyard = IF library = <<>> THEN <<3>> ELSE <<>>,
                                     !.has_played_land_this_turn = TRUE,
                                     !.turn_count = 5]
                 ELSE [Player EXCEPT !.life = life, !.library = <<4>>,
                                     !.turn_count = 5]],
             "main2", BoardTurn - 1, 1)

InitWinner ==
    \E life \in {1, StartingLife} : \E library \in {<<>>, <<3>>} :
        Start(WinnerBoard(life, library), [p \in PlayerIds |-> 3 - 2 * p],
              [p \in PlayerIds |-> IF p = 0 THEN Len(library) ELSE 1],
              BoardTurn, StartingLife)

SpecWinner == InitWinner /\ [][NextGame]_vars

\* the players whose life is above 0 after the step
AliveAfter == {p \in PlayerIds : players'[p].life > 0}

\* C18: when game_over becomes true, get_winner returns the one player whose
\* life is above 0, or no winner when no player's life is above 0; game_over is
\* not set while both players have life above 0.
C18_WinnerIsTheSurvivor ==
    [][(~game_over /\ game_over') =>
          /\ Cardinality(AliveAfter) <= 1
          /\ winner' = IF AliveAfter = {} THEN <<>>
                       ELSE <<CHOOSE p \in AliveAfter : TRUE>>]_vars

\* a game has ended in a draw, both players at no life and no winner named
C18_Witness ==
    /\ game_over
    /\ \A p \in PlayerIds : players[p].life <= 0
    /\ winner = <<>>
    /\ last.op = "execute_action"

\* ---------------------------------------------------------------- asking an agent

MaxChoices == 2
MaxSelected == 2

\* the defaults a request can declare: none, or a value of any type
Defaults ==
    {<<>>} \cup {<<BoolValue(b)>> : b \in BOOLEAN}
        \cup {<<IntValue(n)>> : n \in 0 .. 2}
        \cup {<<StrValue(s)>> : s \in {"", "1", "Human"}}
        \cup {<<ListValue(ids)>> : ids \in SeqsUpTo({"a", "b"}, 2)}

PromptRequests ==
    {PromptRequest(t, lo, hi, d) :
        t \in PromptTypes, lo \in 0 .. MaxChoices, hi \in 0 .. MaxChoices, d \in Defaults}

\* the responses a callback can return, each field of its declared type or None
PromptResponses ==
    {PromptResponse(ids, text, number, boolean) :
        ids \in SeqsUpTo({"a", "b"}, MaxSelected), text \in {<<>>, <<"x">>},
        number \in {<<>>, <<0>>}, boolean \in {<<>>, <<TRUE>>, <<FALSE>>}}

PromptCallbacks ==
    {<<>>, <<Raising>>} \cup {<<Answering(response)>> : response \in PromptResponses}

\* no game is in progress; a request and what the manager finds registered for
\* the player are given
InitPrompt ==
    \E prompt_request \in PromptRequests : \E callback \in PromptCallbacks :
        /\ cards = <<>>
        /\ players = [p \in PlayerIds |-> Player]
        /\ phase = "untap"
        /\ turn_number = 1
        /\ active = 0
        /\ priority = 0
        /\ stack = <<>>
        /\ game_over = FALSE
        /\ winner = <<>>
        /\ pending_triggers = <<>>
        /\ attacks_declared = FALSE
        /\ blocks_declared = FALSE
        /\ exiled_by_source = <<>>
        /\ ret = "None"
        /\ offered = <<>>
        /\ last = [op |-> "init", prompt_request |-> prompt_request,
                   callback |-> callback]
        /\ setup = [deck_size |-> [p \in PlayerIds |-> 0]]
        /\ mulligan_counts = [p \in PlayerIds |-> 0]
        /\ mulliganing_players = {}
        /\ prompts = 0
        /\ phase_log = <<>>
        /\ triggers_log = NoTriggersLog

\* request_prompt on the request; accepted is what _validate_response says of
\* the response of an answering callback
RequestPrompt ==
    /\ last.op = "init"
    /\ last' = [op |-> "request_prompt", prompt_request |-> last.prompt_request,
                callback |-> last.callback,
                result |-> request_prompt(last.prompt_request, last.callback),
                accepted |-> /\ last.callback # <<>>
                             /\ ~last.callback[1].raises
                             /\ validate_response(last.prompt_request,
                                                  last.callback[1].response)]
    /\ ret' = IF request_prompt(last.prompt_request, last.callback).exc # ""
              THEN "raised" ELSE "response"
    /\ prompts' = 1
    /\ UNCHANGED <<cards, players, phase, turn_number, active, priority, stack,
                   game_over, winner, pending_triggers, attacks_declared,
                   blocks_declared, exiled_by_source, offered, setup,
                   mulligan_counts, mulliganing_players, phase_log,
                   triggers_log>>

NextPrompt == RequestPrompt

SpecPrompt == InitPrompt /\ [][NextPrompt]_vars

\* C19: request_prompt returns the response of a registered callback that passes
\* validation; otherwise (no callback, a callback that raises, a response that
\* fails validation) it returns the declared default response, or raises
\* PromptError when none is declared; no other exception leaves request_prompt.
C19_FallbackOrPromptError ==
    last.op = "request_prompt" =>
        IF last.accepted
        THEN last.result = [exc |-> "", response |-> last.callback[1].response]
        ELSE IF last.prompt_request.default_response # <<>>
        THEN /\ last.result.exc = ""
             /\ last.result.response
                    = create_default_response(last.prompt_request).response
        ELSE last.result.exc = "PromptError"

\* the callback of the last request_prompt returned a response
Answered ==
    /\ last.op = "request_prompt"
    /\ last.callback # <<>>
    /\ ~last.callback[1].raises

MaxPayLands == 4

\* the positions of SpecMana with an empty pool and up to MaxPayLands lands, at
\* most one of them tapped
InitPaying ==
    \E lands \in SeqsUpTo(LandNames, MaxPayLands) :
      \E tapped \in {t \in [1 .. Len(lands) -> BOOLEAN] :
                        Cardinality({i \in 1 .. Len(lands) : t[i]}) <= 1} :
        \E symbols \in SeqsUpTo(CostSymbols, MaxSymbols) :
          \E type \in {"creature", "instant"} :
             Start(ManaPosition(lands, tapped, 0, 0, symbols, type),
                   [p \in PlayerIds |-> IF p = 0 THEN Len(lands) + 1 ELSE 0],
                   [p \in PlayerIds |-> 0], 3, StartingLife)

SpecPaying == InitPaying /\ [][NextMana]_vars

\* the untapped lands of the caller of the last call, in battlefield order, before it
UntappedBefore ==
    SelectSeq(players[last'.player].battlefield,
              LAMBDA c : is_land(cards[c]) /\ ~cards[c].is_tapped)

\* how many symbols of a colour a cost has
ColorSymbols(cost, color) ==
    CASE color = "white" -> cost.white [] color = "blue" -> cost.blue
      [] color = "black" -> cost.black [] color = "red" -> cost.red
      [] color = "green" -> cost.green

PayingColors == {"white", "blue", "black", "red", "green"}

\* the positions in the untapped lands of the first c_X lands of each colour X
ReservedForColors(untapped_lands, cost) ==
    {i \in 1 .. Len(untapped_lands) :
        LET color == LandColor(cards[untapped_lands[i]].name)
        IN  /\ color \in PayingColors
            /\ Cardinality({j \in 1 .. i :
                   LandColor(cards[untapped_lands[j]].name) = color})
                 <= ColorSymbols(cost, color)}

\* the positions of the first g lands that are not reserved for a colour
ReservedForGeneric(untapped_lands, reserved, generic) ==
    {i \in 1 .. Len(untapped_lands) :
        /\ i \notin reserved
        /\ Cardinality({j \in 1 .. i : j \notin reserved}) <= generic}

\* the lands the claim names for a cost
LandsThatPay(untapped_lands, reserved, generic) ==
    {untapped_lands[i] :
        i \in reserved \cup ReservedForGeneric(untapped_lands, reserved, generic)}

NewlyTapped == {c \in DOMAIN cards : cards'[c].is_tapped /\ ~cards[c].is_tapped}

\* the last call paid the cost of its spell: a cast that returned true, or a
\* tap_lands_for_spell that returned true and left a pool that pays the cost
PaidFromEmptyPool ==
    /\ last'.op \in PaymentOps
    /\ players[last'.player].mana_pool = EmptyPool
    /\ ret' = "True"
    /\ last'.op = "tap_lands_for_spell"
         => pay_cost(players'[last'.player].mana_pool,
                     cards[last'.card].mana_cost).ok

\* C21: with an empty pool, a successful payment of a cost with c_X symbols of each
\* colour X and g generic taps exactly (sum of c_X) + g lands: for each colour the
\* first c_X untapped lands of the matching basic type in battlefield order, then
\* the first g untapped lands in battlefield order that are not reserved; every
\* other land keeps its tapped flag and the pool is empty once the cost is paid.
C21_WhichLandsPay ==
    [][PaidFromEmptyPool
         => LET cost == cards[last'.card].mana_cost
            IN  /\ NewlyTapped = LandsThatPay(UntappedBefore,
                                               ReservedForColors(UntappedBefore, cost),
                                               cost.generic)
                /\ Cardinality(NewlyTapped)
                     = cost.white + cost.blue + cost.black + cost.red + cost.green
                         + cost.generic
                /\ \A c \in DOMAIN cards : cards[c].is_tapped => cards'[c].is_tapped
                /\ IF last'.op = "tap_lands_for_spell"
                   THEN pay_cost(players'[last'.player].mana_pool, cost).pool
                          = EmptyPool
                   ELSE players'[last'.player].mana_pool = EmptyPool]_vars

\* {2}{W} was cast with a Plains that is not the first land and three other
\* untapped lands: the Plains and the first two others are tapped, the last is not
C21_Witness ==
    /\ last.op \in {"cast_spell", "cast_spell_with_targets"}
    /\ ret = "True"
    /\ cards[last.card].mana_cost = from_string(<<"2", "W">>)
    /\ Len(players[0].battlefield) = 4
    /\ cards[players[0].battlefield[3]].name = "Plains"
    /\ \A i \in {1, 2, 4} : cards[players[0].battlefield[i]].name # "Plains"
    /\ \A i \in {1, 2, 3} : cards[players[0].battlefield[i]].is_tapped
    /\ ~cards[players[0].battlefield[4]].is_tapped
    /\ players[0].mana_pool = EmptyPool

\* ---------------------------------------------------------------- tapping a land for mana

\* the call is execute_action on the tap-for-mana ability of a basic land that is
\* on the battlefield of its controller
TapsBasicLand(call) ==
    /\ call.op = "execute_action"
    /\ call.action.action_type = "activate_ability"
    /\ LET card == cards[call.action.card]
       IN  /\ is_land(card)
           /\ LandColor(card.name) # "colorless"
           /\ InSeq(call.action.card, players[card.controller].battlefield)
           /\ card.abilities[call.action.ability].cost = "T"
           /\ card.abilities[call.action.ability].effect.fn = "add_mana"

\* an untap step of the player ran during the last call
UntapStepRan(p) ==
    \E i \in 2 .. Len(phase_log') :
        phase_log'[i].phase = "untap" /\ phase_log'[i].active = p

FrailDrone(owner) == [DockworkerDrone(owner) EXCEPT !.toughness = -1]

DiesCards(other) ==
    <<Permanent(Plains(0), TRUE), InHand(FrailDrone(0)), OtherLand(0),
      IF other THEN Permanent(IllvoiGaleblade(0), FALSE) ELSE IllvoiGaleblade(0),
      Permanent(Plains(1), TRUE), InHand(BlightedRecruit(1)), DualSunTechnique(1)>>

\* the first main phase of a later turn: the first player holds the drone and the
\* mana for it, and has another creature on the battlefield or none
DiesBoard(other) ==
    Position(DiesCards(other),
             [p \in PlayerIds |->
                 IF p = 0
                 THEN [Player EXCEPT !.battlefield = IF other THEN <<1, 4>> ELSE <<1>>,
                                     !.hand = <<2>>,
                                     !.library = IF other THEN <<3>> ELSE <<3, 4>>,
                                     !.mana_pool = [EmptyPool EXCEPT !["white"] = 2],
                                     !.has_played_land_this_turn = TRUE,
                                     !.turn_count = 6]
                 ELSE [Player EXCEPT !.battlefield = <<5>>, !.hand = <<6>>,
                                     !.library = <<7>>,
                                     !.mana_pool = [EmptyPool EXCEPT !["white"] = 1],
                                     !.turn_count = 5]],
             "main1", BoardTurn, 0)

InitDies ==
    \E other \in BOOLEAN :
        Start(DiesBoard(other), [p \in PlayerIds |-> IF p = 0 THEN 4 ELSE 3],
              [p \in PlayerIds |-> IF p = 0 /\ ~other THEN 2 ELSE 1],
              BoardTurn, StartingLife)

SpecDies == InitDies /\ [][NextGame]_vars

\* the "dies" triggered abilities of a card, as entries of the trigger queue
DiesTriggers(c) ==
    {[ability |-> i, source |-> c] : i \in {j \in 1 .. Len(cards[c].abilities) :
        /\ cards[c].abilities[j].ability_type = "triggered"
        /\ cards[c].abilities[j].trigger_condition = "dies"}}

\* C23: when the state-based check moves a creature to the graveyard, a "dies"
\* event is fired for it and each of the creature's own "dies" triggered abilities
\* is enqueued.
C23_DiesTriggersEnqueued ==
    [][\A k \in 1 .. Len(triggers_log'.died) :
          DiesTriggers(triggers_log'.died[k]) \subseteq Range(triggers_log'.enqueued)]_vars

\* ---------------------------------------------------------------- what execute_action returns

UnpaidCards ==
    <<Permanent(Island(0), FALSE), InHand(IllvoiGaleblade(0)),
      InHand(IllvoiGaleblade(0)), Plains(0),
      Permanent(Plains(1), FALSE), Island(1)>>

\* the first main phase of a later turn: the first player has one Island and two
\* Galeblades in hand
UnpaidBoard ==
    Position(UnpaidCards,
             [p \in PlayerIds |->
                 IF p = 0
                 THEN [Player EXCEPT !.battlefield = <<1>>, !.hand = <<2, 3>>,
                                     !.library = <<4>>,
                                     !.has_played_land_this_turn = TRUE,
                                     !.turn_count = 6]
                 ELSE [Player EXCEPT !.battlefield = <<5>>, !.library = <<6>>,
                                     !.turn_count = 5]],
             "main1", BoardTurn, 0)

InitUnpaid ==
    Start(UnpaidBoard, [p \in PlayerIds |-> IF p = 0 THEN 4 ELSE 2],
          [p \in PlayerIds |-> 1], BoardTurn, StartingLife)

SpecUnpaid == InitUnpaid /\ [][NextGame]_vars

\* the routine of the action of the call reports failure: the call gets past the
\* checks of execute_action and the closure of the action returns False
RoutineFails(call) ==
    /\ call.op = "execute_action"
    /\ ~Refused(call.action)
    /\ action_execute(G(<<>>, 0), call.action).ret = "False"

\* C24: execute_action returns true only if the executed action took effect:
\* whenever the routine of the action reports failure, execute_action returns false.
C24_TrueOnlyIfTookEffect ==
    [][RoutineFails(last') => ret' = "False"]_vars

\* ---------------------------------------------------------------- the list of legal actions

\* the list the last call of get_legal_actions returned
ReturnedList == get_legal_actions(G(<<>>, 0), last'.player).actions

\* the engine state after the last call is what pass_priority makes of the state
\* before it
PassedItself ==
    LET g == pass_priority(G(<<>>, 0))
    IN  /\ cards' = g.cards
        /\ players' = g.players
        /\ phase' = g.phase
        /\ turn_number' = g.turn_number
        /\ active' = g.active
        /\ priority' = g.priority
        /\ stack' = g.stack
        /\ game_over' = g.game_over

EngineUnchanged ==
    UNCHANGED <<cards, players, phase, turn_number, active, priority, stack,
                game_over, winner, pending_triggers, attacks_declared,
                blocks_declared, exiled_by_source>>

\* C25: get_legal_actions never returns a list that holds only the pass action:
\* when pass is the only legal action of the priority holder it passes itself and
\* returns the empty list; every non-empty list it returns holds the pass action;
\* for a player without priority, and when the game is over, it returns the empty
\* list and changes no state.
C25_NeverOnlyPass ==
    [][last'.op = "get_legal_actions"
         => /\ ~only_pass(ReturnedList)
            /\ ReturnedList # <<>>
                 => \E i \in 1 .. Len(ReturnedList) :
                       ReturnedList[i].action_type = "pass"
            /\ (~game_over /\ last'.player = priority
                  /\ only_pass(legal_actions(G(<<>>, 0), last'.player)))
                 => ReturnedList = <<>> /\ PassedItself
            /\ (game_over \/ last'.player # priority)
                 => ReturnedList = <<>> /\ EngineUnchanged]_vars

\* get_legal_actions was called for the priority holder, passed for the player
\* and moved to another phase
C25_Witness ==
    /\ last.op = "get_legal_actions"
    /\ Len(phase_log) > 1
    /\ phase_log[1].phase # phase
    /\ ~game_over

\* ---------------------------------------------------------------- the example driver

\* what an iteration of the game loop leaves in `last`: the player it asked, the
\* action the agent chose, and, when the list was empty and the loop passed, the
\* player whose priority that pass gave up and whether that player had a legal
\* action other than pass
Iteration(player, action, passed_for, had_choice) ==
    [op |-> "loop", player |-> player, action |-> action, card |-> 0,
     targets |-> <<>>, passed_for |-> passed_for, had_choice |-> had_choice]

\* "if not legal_actions: game.pass_priority(); continue"
LoopPasses(g1) ==
    /\ g1.actions = <<>>
    /\ Set([pass_priority(g1) EXCEPT !.ret = "None"])
    /\ last' = Iteration(priority, NoAction, <<g1.priority>>,
                         ~only_pass(legal_actions(g1, g1.priority)))
    /\ UNCHANGED <<offered, setup>>

\* the agent chooses an action of the list and the loop executes it
LoopExecutes(g1) ==
    /\ g1.actions # <<>>
    /\ \E i \in 1 .. Len(g1.actions) :
          /\ Set(execute_action(g1, priority, g1.actions[i]))
          /\ last' = Iteration(priority, g1.actions[i], <<>>, FALSE)
    /\ offered' = g1.actions
    /\ UNCHANGED setup

\* one iteration of the while loop of run_prompt_system_game; the loop ends when
\* the game is over and when execute_action returns False
LoopIteration ==
    /\ InBound
    /\ ~game_over
    /\ ~(last.op = "loop" /\ ret = "False")
    /\ \/ LoopPasses(get_legal_actions(G(<<>>, 0), priority))
       \/ LoopExecutes(get_legal_actions(G(<<>>, 0), priority))

NextLoop == LoopIteration

SpecLoop == Init /\ [][NextLoop]_vars

\* C26: under the example driver loop no decision is skipped: a pass is never made
\* on behalf of a player who had a legal action other than pass without that
\* player being asked.
C26_NoDecisionSkipped ==
    [][(last'.op = "loop" /\ last'.passed_for # <<>>) => ~last'.had_choice]_vars

\* ---------------------------------------------------------------- phases without decisions

\* C27: every call of get_legal_actions, execute_action and pass_priority returns
\* after finitely many phase transitions (at most one round of the phases), and
\* when it returns the phase is never untap, draw, combat_damage, combat_end or
\* cleanup: each of these runs its entry action and advances within the same call.
C27_NoRestWithoutDecision ==
    last.op \in GameStateOps
        => /\ phase \notin NeverResting
           /\ Len(phase_log) - 1 <= Len(Phase)
           /\ \A i \in 2 .. Len(phase_log) :
                 phase_log[i].phase \in NeverResting => i < Len(phase_log)

\* one call went through cleanup, untap and draw and came to rest after them
C27_Witness ==
    /\ last.op \in GameStateOps
    /\ \A ph \in {"cleanup", "untap", "draw"} :
          \E i \in 2 .. Len(phase_log) - 1 : phase_log[i].phase = ph
    /\ phase \notin NeverResting

\* ---------------------------------------------------------------- priority in a new phase

\* who holds priority when a phase is entered
ExpectedPriority(ph, act) == IF ph = "declare_blockers" THEN 1 - act ELSE act

TriggerCards ==
    <<Permanent(Plains(0), TRUE), InHand(Doomsayer(0)), OtherLand(0),
      Permanent(Plains(1), TRUE), InHand(BlightedRecruit(1)), DualSunTechnique(1)>>

\* the first main phase of a later turn: each player holds a creature with an
\* enters-the-battlefield trigger and the mana for it
TriggerBoard ==
    Position(TriggerCards,
             [p \in PlayerIds |->
                 IF p = 0
                 THEN [Player EXCEPT !.battlefield = <<1>>, !.hand = <<2>>,
                                     !.library = <<3>>,
                                     !.mana_pool = [EmptyPool EXCEPT !["white"] = 1],
                                     !.has_played_land_this_turn = TRUE,
                                     !.turn_count = 6]
                 ELSE [Player EXCEPT !.battlefield = <<4>>, !.hand = <<5>>,
                                     !.library = <<6>>,
                                     !.mana_pool = [EmptyPool EXCEPT !["white"] = 1],
                                     !.turn_count = 5]],
             "main1", BoardTurn, 0)

InitTriggers ==
    Start(TriggerBoard, [p \in PlayerIds |-> 3], [p \in PlayerIds |-> 1],
          BoardTurn, StartingLife)

SpecTriggers == InitTriggers /\ [][Next]_vars

\* C29: trigger resolution is strictly FIFO: the effects a call invokes are, in
\* order and each once, the triggers that were pending before the call followed by
\* the triggers the call enqueued (those enqueued while the queue is drained
\* included), and what is not invoked stays pending in that order; inside
\* execute_action the queue is empty whenever the state-based check starts.
C29_TriggersFifo ==
    [][/\ pending_triggers \o triggers_log'.enqueued
            = triggers_log'.run \o pending_triggers'
       /\ \A i \in 1 .. Len(triggers_log'.at_sba) : triggers_log'.at_sba[i] = 0]_vars

\* two triggers were pending, the effect of the first enqueued a third while the
\* queue was drained, and the three effects ran in the order of the queue
C29_Witness ==
    /\ last.op = "execute_action"
    /\ Len(triggers_log.run) = 3
    /\ Len(triggers_log.enqueued) >= 1
    /\ triggers_log.run[3] = triggers_log.enqueued[Len(triggers_log.enqueued)]
    /\ cards[triggers_log.run[1].source]
          .abilities[triggers_log.run[1].ability].effect.fn = "fire_dies"
    /\ triggers_log.run[2].source # triggers_log.run[1].source
    /\ triggers_log.at_sba = <<0>>
    /\ pending_triggers = <<>>

\* ---------------------------------------------------------------- the stack

StackCards ==
    <<InHand(BanishingLight(0)), InHand(Misfire(0)), OtherLand(0),
      DroneInPlay(1), InHand(DualSunTechnique(1)), OtherLand(1)>>

\* the first main phase of a later turn: the players hold three spells that go on
\* the stack, one of them failing when it resolves, and the mana for all of them
StackBoard ==
    Position(StackCards,
             [p \in PlayerIds |->
                 IF p = 0
                 THEN [Player EXCEPT !.hand = <<1, 2>>, !.library = <<3>>,
                                     !.mana_pool = [EmptyPool EXCEPT !["white"] = 4],
                                     !.has_played_land_this_turn = TRUE,
                                     !.turn_count = 6]
                 ELSE [Player EXCEPT !.battlefield = <<4>>, !.hand = <<5>>,
                                     !.library = <<6>>,
                                     !.mana_pool = [EmptyPool EXCEPT !["white"] = 2],
                                     !.turn_count = 5]],
             "main1", BoardTurn, 0)

InitStack ==
    Start(StackBoard, [p \in PlayerIds |-> 3], [p \in PlayerIds |-> 1],
          BoardTurn, StartingLife)

SpecStack == InitStack /\ [][Next]_vars

ResolvesTop == last'.op = "resolve_top_of_stack"

\* C30: stack resolution is strictly LIFO: resolve_top_of_stack removes the object
\* pushed last and resolves it, so that its card leaves the stack zone unless its
\* resolution routine raised, and every object below stays as it was; the call
\* returns False without raising when the stack is empty or when the routine
\* raises, and the removed object is not put back.
C30_StackLifo ==
    [][ResolvesTop =>
         /\ ret' \in {"True", "False"}
         /\ stack = <<>> => ret' = "False" /\ stack' = <<>>
         /\ stack # <<>> =>
              LET top == stack[Len(stack)]
              IN  /\ stack' = SubSeq(stack, 1, Len(stack) - 1)
                  /\ last'.card = top.source_card
                  /\ \A i \in 1 .. Len(stack') :
                        cards'[stack[i].source_card] = cards[stack[i].source_card]
                  /\ IF cards[top.source_card].name = "Misfire"
                     THEN ret' = "False"
                     ELSE cards'[top.source_card].zone \in {"battlefield", "graveyard"}]_vars

\* the routine of the object pushed last raised: the call returned False, the
\* object is gone and the two objects pushed before it are still on the stack
C30_Witness ==
    /\ last.op = "resolve_top_of_stack"
    /\ last.card # 0
    /\ cards[last.card].name = "Misfire"
    /\ ret = "False"
    /\ Len(stack) = 2
    /\ \A i \in 1 .. Len(stack) :
          stack[i].source_card # last.card /\ cards[stack[i].source_card].zone = "stack"

\* ---------------------------------------------------------------- one place per card

\* the cards in the list of the zone, over both players; the sources of the stack
\* objects for the stack zone
ListedIn(zone) ==
    IF zone = "stack" THEN {stack[i].source_card : i \in 1 .. Len(stack)}
    ELSE IF zone = "library"
    THEN Range(players[0].library) \cup Range(players[1].library)
    ELSE IF zone = "hand" THEN Range(players[0].hand) \cup Range(players[1].hand)
    ELSE IF zone = "battlefield" THEN OnBattlefield
    ELSE IF zone = "graveyard"
    THEN Range(players[0].graveyard) \cup Range(players[1].graveyard)
    ELSE Range(players[0].exile) \cup Range(players[1].exile)

\* C31: between engine operations each card appears exactly once among the zone
\* lists and the stack objects, and its zone tag names the place where it appears.
C31_OnePlacePerCard ==
    \A c \in DOMAIN cards :
        ZonesHolding(c) = 1 /\ c \in ListedIn(cards[c].zone)

\* ---------------------------------------------------------------- off the battlefield

\* C32: every card that is not on a battlefield has tapped, attacking and blocking
\* all false and summoning-sick true, whichever way it left the battlefield.
C32_ResetOffBattlefield ==
    \A c \in DOMAIN cards :
        c \notin OnBattlefield
            => /\ ~cards[c].is_tapped
               /\ ~cards[c].is_attacking
               /\ ~cards[c].is_blocking
               /\ cards[c].summoning_sick

\* ---------------------------------------------------------------- mana across turns

PoolTotal(p) ==
    LET pool == players[p].mana_pool
    IN  pool.white + pool.blue + pool.black + pool.red + pool.green + pool.colorless

\* C33: after every Cleanup step, which is where a turn ends and the next one
\* starts, the mana pool of each of the two players holds no mana of any color.
C33_PoolsEmptyAfterCleanup ==
    [][turn_number' # turn_number => \A p \in PlayerIds : PoolTotal(p)' = 0]_vars

\* ---------------------------------------------------------------- the feasibility of a payment

\* the mana of a color a player could have: what the pool holds plus one for each
\* untapped land that produces the color
Availability(p, color) ==
    players[p].mana_pool[color]
    + Len(SelectSeq(players[p].battlefield,
                    LAMBDA c : /\ is_land(cards[c])
                               /\ ~cards[c].is_tapped
                               /\ LandColor(cards[c].name) = color))

TotalAvailability(p) ==
    Availability(p, "white") + Availability(p, "blue") + Availability(p, "black")
    + Availability(p, "red") + Availability(p, "green") + Availability(p, "colorless")

\* each colored requirement is within the availability of its color
ColoredWithin(p, cost) ==
    /\ cost.white <= Availability(p, "white")
    /\ cost.blue <= Availability(p, "blue")
    /\ cost.black <= Availability(p, "black")
    /\ cost.red <= Availability(p, "red")
    /\ cost.green <= Availability(p, "green")

ColoredCost(cost) == cost.white + cost.blue + cost.black + cost.red + cost.green

\* the costs of the spells of the positions
Costs == {from_string(symbols) : symbols \in SeqsUpTo(CostSymbols, MaxSymbols)}

\* C34 as stated: the feasibility check is true exactly when each of the five
\* colored requirements is within the availability of its color and the
\* availability left after the colored costs covers the generic cost.
C34_FeasibleIffFiveColors ==
    \A p \in PlayerIds : \A cost \in Costs :
        can_pay_mana_cost(G(<<>>, 0), p, cost)
            <=> /\ ColoredWithin(p, cost)
                /\ TotalAvailability(p) - ColoredCost(cost) >= cost.generic

\* C34: the feasibility check is true exactly when each of the five colored
\* requirements and the colorless requirement is within the availability of its
\* kind and the availability left after the colored and colorless costs covers
\* the generic cost, for every pool, every set of lands and every cost.
C34_FeasibleIffReference ==
    \A p \in PlayerIds : \A cost \in Costs :
        can_pay_mana_cost(G(<<>>, 0), p, cost)
            <=> /\ ColoredWithin(p, cost)
                /\ cost.colorless <= Availability(p, "colorless")
                /\ TotalAvailability(p) - ColoredCost(cost) - cost.colorless
                     >= cost.generic

\* a cast was refused for a spell with a colorless requirement that the colorless
\* availability does not cover, although the five colors and the total would do
C34_Witness ==
    /\ last.op = "cast_spell"
    /\ ret = "False"
    /\ LET cost == cards[last.card].mana_cost
       IN  /\ cost.colorless > Availability(last.player, "colorless")
           /\ ColoredWithin(last.player, cost)
           /\ TotalAvailability(last.player) - ColoredCost(cost) >= cost.generic
           /\ ~can_pay_mana_cost(G(<<>>, 0), last.player, cost)
    /\ \E c \in Range(players[last.player].battlefield) : ~cards[c].is_tapped

\* ---------------------------------------------------------------- feasible casts

\* the pool total of a player plus the number of the player's untapped lands
AvailableIn(ps, cs, p) ==
    LET pool == ps[p].mana_pool
    IN  pool.white + pool.blue + pool.black + pool.red + pool.green + pool.colorless
        + Len(SelectSeq(ps[p].battlefield,
                        LAMBDA c : is_land(cs[c]) /\ ~cs[c].is_tapped))

TotalCost(cost) == ColoredCost(cost) + cost.colorless + cost.generic

\* C35: whenever can_cast_spell is true for a spell, cast_spell returns true,
\* removes the card from the hand, and reduces the available mana of the player
\* (pool plus untapped lands) by exactly the total cost of the spell.
C35_FeasibleCastSucceeds ==
    [][(last'.op = "cast_spell"
          /\ can_cast_spell(G(<<>>, 0), last'.player, last'.card))
         => /\ ret' = "True"
            /\ ~InSeq(last'.card, players'[last'.player].hand)
            /\ AvailableIn(players', cards', last'.player)
                 = AvailableIn(players, cards, last'.player)
                   - TotalCost(cards[last'.card].mana_cost)]_vars

\* ---------------------------------------------------------------- the targets returned

\* what the last request_targets returned; the call leaves the game as it was
Returned ==
    request_targets(G(<<>>, 0), last.player, last.target_filter, last.num_targets,
                    last.callback).targets

\* C36: when request_targets returns normally for num_targets = n, the returned
\* list has exactly n entries, all of them distinct cards that were among the
\* candidates computed for the filter.
C36_DistinctCandidatesReturned ==
    (last.op = "request_targets" /\ ret # "raised")
    => /\ Len(Returned) = last.num_targets
       /\ \A i, j \in 1 .. Len(Returned) : i # j => Returned[i] # Returned[j]
       /\ \A i \in 1 .. Len(Returned) : InSeq(Returned[i], Candidates)

\* ---------------------------------------------------------------- the marks of combat

CombatPhases == {"declare_attackers", "declare_blockers", "combat_damage"}

\* C37: every creature on a battlefield that is marked attacking is tapped and
\* controlled by the active player, and the phase is DeclareAttackers,
\* DeclareBlockers or CombatDamage; when the engine rests in any other phase no
\* creature on a battlefield is marked attacking or blocking.
C37_AttackersTappedInCombat ==
    \A c \in OnBattlefield :
        /\ cards[c].is_attacking
             => /\ cards[c].is_tapped
                /\ cards[c].controller = active
                /\ phase \in CombatPhases
        /\ phase \notin CombatPhases
             => ~cards[c].is_attacking /\ ~cards[c].is_blocking

\* the defending player holds priority in DeclareBlockers while a tapped creature
\* of the active player is marked attacking
C37_Witness ==
    /\ phase = "declare_blockers"
    /\ last.op = "execute_action"
    /\ last.action.action_type = "declare_attacks"
    /\ priority # active
    /\ \E c \in Range(players[active].battlefield) :
          cards[c].is_attacking /\ cards[c].is_tapped

\* ---------------------------------------------------------------- summoning sickness

SickCards ==
    <<Permanent(Island(0), FALSE), InHand(IllvoiGaleblade(0)), DualSunTechnique(0),
      DualSunTechnique(1)>>

\* the first main phase of a later turn: the first player has an Island and a
\* Galeblade in hand; the game goes on into the next turn of the first player
SickBoard ==
    Position(SickCards,
             [p \in PlayerIds |->
                 IF p = 0
                 THEN [Player EXCEPT !.battlefield = <<1>>, !.hand = <<2>>,
                                     !.library = <<3>>,
                                     !.has_played_land_this_turn = TRUE,
                                     !.turn_count = 6]
                 ELSE [Player EXCEPT !.library = <<4>>, !.turn_count = 5]],
             "main1", BoardTurn, 0)

InitSick ==
    Start(SickBoard, [p \in PlayerIds |-> 3 - 2 * p], [p \in PlayerIds |-> 1],
          BoardTurn + 2, StartingLife)

SpecSick == InitSick /\ [][NextGame]_vars

\* C38: a creature is never marked attacking in the turn in which it entered the
\* battlefield; it is declared as an attacker only in a turn of its controller
\* that started with it on the battlefield, and only while it is untapped.
C38_NoAttackWhenSummoningSick ==
    [][/\ \A c \in OnBattlefield' :
             cards'[c].is_attacking
                 => cards'[c].entered_turn < turn_number' /\ active' = cards'[c].controller
       /\ \A c \in DOMAIN cards :
             (cards'[c].is_attacking /\ ~cards[c].is_attacking)
                 => /\ c \in OnBattlefield
                    /\ cards[c].entered_turn < turn_number
                    /\ active = cards[c].controller
                    /\ ~cards[c].summoning_sick
                    /\ ~cards[c].is_tapped]_vars

\* a creature cast in one turn of its controller attacks in the next one
C38_Witness ==
    /\ last.op = "execute_action"
    /\ last.action.action_type = "declare_attacks"
    /\ \E c \in Range(players[active].battlefield) :
          /\ cards[c].is_attacking
          /\ cards[c].entered_turn = BoardTurn
          /\ turn_number = BoardTurn + 2

\* ---------------------------------------------------------------- after the game is over

\* the life totals and the zone lists of both players
LivesAndZones ==
    [p \in PlayerIds |->
        <<players[p].life, players[p].library, players[p].hand,
          players[p].battlefield, players[p].graveyard, players[p].exile>>]

\* C39: once game_over is true it stays true and the winner never changes,
\* get_legal_actions returns the empty list, execute_action returns false, and no
\* call of get_legal_actions, execute_action or pass_priority changes the phase,
\* the turn number, a life total or a zone.
C39_GameOverIsFinal ==
    [][(game_over /\ last'.op \in GameStateOps)
         => /\ game_over' /\ winner' = winner
            /\ last'.op = "get_legal_actions" => ret' = "list" /\ offered' = offered
            /\ last'.op = "execute_action" => ret' = "False"
            /\ phase' = phase /\ turn_number' = turn_number
            /\ LivesAndZones' = LivesAndZones
            /\ stack' = stack]_vars

\* ---------------------------------------------------------------- scry system

MaxScry == 2

\* DeckSystem.put_cards_bottom
put_cards_bottom(g, p, cs) ==
    [g EXCEPT !.players[p].library = @ \o cs,
              !.cards = SetZone(@, cs, "library")]

Reversed(s) == [i \in 1 .. Len(s) |-> s[Len(s) + 1 - i]]

\* a put_cards_top that inserts the cards at the top in the order given
RECURSIVE put_cards_top_in_order(_, _, _)
put_cards_top_in_order(g, p, cs) ==
    IF cs = <<>> THEN g
    ELSE put_cards_top_in_order(
             [g EXCEPT !.players[p].library = <<Head(cs)>> \o @,
                       !.cards[Head(cs)].zone = "library"],
             p, Tail(cs))

\* DeckSystem.put_cards_top: each card of the reversed list is inserted at the top
RECURSIVE insert_each_at_top(_, _, _)
insert_each_at_top(g, p, cs) ==
    IF cs = <<>> THEN g
    ELSE insert_each_at_top(
             [g EXCEPT !.players[p].library = <<Head(cs)>> \o @,
                       !.cards[Head(cs)].zone = "library"],
             p, Tail(cs))

put_cards_top(g, p, cs) == insert_each_at_top(g, p, Reversed(cs))

\* ScryChoice(cards_to_bottom, cards_to_top)
ScryChoice(cards_to_bottom, cards_to_top) ==
    [cards_to_bottom |-> cards_to_bottom, cards_to_top |-> cards_to_top]

\* ScryChoice.validate; the id of a card is its index
validate(choice, available_cards) ==
    LET all_chosen == choice.cards_to_bottom \o choice.cards_to_top
    IN  IF Len(all_chosen) # Len(available_cards) THEN FALSE
        ELSE IF Cardinality(Range(all_chosen)) # Len(all_chosen) THEN FALSE
        ELSE Range(all_chosen) = Range(available_cards)

\* ScrySystem.initiate_scry: [g, cards: <<the list>>, or <<>> for None]
initiate_scry(g, p, scry_amount) ==
    IF scry_amount <= 0 \/ Len(g.players[p].library) = 0
    THEN [g |-> g, cards |-> <<>>]
    ELSE LET library == g.players[p].library
             look_amount == Min(scry_amount, Len(library))
         IN  [g |-> [g EXCEPT !.players[p].library =
                                  SubSeq(library, look_amount + 1, Len(library))],
              cards |-> <<SubSeq(library, 1, look_amount)>>]

\* ScrySystem.complete_scry
complete_scry(g, p, scry_cards, choice) ==
    IF ~validate(choice, scry_cards) THEN [g EXCEPT !.ret = "False"]
    ELSE [put_cards_top(put_cards_bottom(g, p, choice.cards_to_bottom), p,
                        choice.cards_to_top)
             EXCEPT !.ret = "True"]

\* the end of perform_full_scry: an invalid choice puts the cards back on top
scry_completed(g1, p, scry_cards) ==
    IF g1.ret = "True" THEN g1 ELSE put_cards_top(g1, p, scry_cards)

\* ScrySystem.perform_full_scry; choice is what choice_callback returns
perform_full_scry(g, p, scry_amount, choice) ==
    LET scry == initiate_scry(g, p, scry_amount)
    IN  IF scry.cards = <<>> THEN [g EXCEPT !.ret = "False"]
        ELSE scry_completed(complete_scry(scry.g, p, scry.cards[1], choice),
                            p, scry.cards[1])

ScryDeck == <<Plains(0), Island(0), DockworkerDrone(0), Plains(1)>>

\* the libraries before a scry: the first player has up to three cards, the
\* second player one
ScryBoard(n) ==
    Position(ScryDeck,
             [p \in PlayerIds |->
                 IF p = 0
                 THEN [Player EXCEPT !.library = SubSeq(<<1, 2, 3>>, 1, n),
                                     !.graveyard = SubSeq(<<1, 2, 3>>, n + 1, 3),
                                     !.turn_count = 6]
                 ELSE [Player EXCEPT !.library = <<4>>, !.turn_count = 5]],
             "main1", BoardTurn, 0)

InitScry ==
    \E n \in 0 .. 3 :
        Start([ScryBoard(n) EXCEPT
                  !.cards = SetZone(@, SubSeq(<<1, 2, 3>>, n + 1, 3), "graveyard")],
              [p \in PlayerIds |-> 3 - 2 * p],
              [p \in PlayerIds |-> IF p = 0 THEN n ELSE 1], BoardTurn, StartingLife)

\* what a choice callback can return: two lists of cards of either player
ScryChoices ==
    {ScryChoice(cards_to_bottom, cards_to_top) :
        cards_to_bottom \in SeqsUpTo(DOMAIN ScryDeck, MaxScry),
        cards_to_top \in SeqsUpTo(DOMAIN ScryDeck, MaxScry)}

\* one call of perform_full_scry
PerformFullScry(p, scry_amount, choice) ==
    /\ last.op = "init"
    /\ Set(perform_full_scry(G(<<>>, 0), p, scry_amount, choice))
    /\ last' = [op |-> "perform_full_scry", player |-> p, action |-> NoAction,
                card |-> 0, targets |-> <<>>, scry_amount |-> scry_amount,
                choice |-> choice]
    /\ UNCHANGED <<offered, setup>>

NextScry ==
    \E p \in PlayerIds : \E scry_amount \in 0 .. MaxScry : \E choice \in ScryChoices :
        PerformFullScry(p, scry_amount, choice)

SpecScry == InitScry /\ [][NextScry]_vars

\* the cards the scry of the last call looks at, and the library below them
Scried ==
    SubSeq(players[last'.player].library, 1,
           Min(last'.scry_amount, Len(players[last'.player].library)))

Untouched ==
    SubSeq(players[last'.player].library, Len(Scried) + 1,
           Len(players[last'.player].library))

\* the choice names each of the cards looked at once, and no other card
ValidChoice ==
    LET all_chosen == last'.choice.cards_to_bottom \o last'.choice.cards_to_top
    IN  /\ \A c \in Range(Scried) :
              Len(SelectSeq(all_chosen, LAMBDA x : x = c)) = 1
        /\ \A i \in 1 .. Len(all_chosen) : InSeq(all_chosen[i], Scried)

\* C40: perform_full_scry with an invalid choice returns false and leaves the
\* library in its original order; with a valid choice the library holds the kept
\* cards on top in the chosen order, the untouched cards next in their original
\* order and the bottomed cards last; no other zone changes either way.
C40_ScryKeepsLibrary ==
    [][(last'.op = "perform_full_scry" /\ Scried # <<>>)
         => /\ IF ValidChoice
               THEN /\ ret' = "True"
                    /\ players'[last'.player].library
                         = last'.choice.cards_to_top \o Untouched
                             \o last'.choice.cards_to_bottom
               ELSE /\ ret' = "False"
                    /\ players'[last'.player].library = players[last'.player].library
            /\ players' = [players EXCEPT ![last'.player].library =
                                              players'[last'.player].library]
            /\ \A c \in DOMAIN cards : cards'[c].zone = cards[c].zone]_vars

\* two of three cards were looked at: one was kept on top, the third card was not
\* touched, and the other one went to the bottom
C40_Witness ==
    /\ last.op = "perform_full_scry"
    /\ ret = "True"
    /\ Len(last.choice.cards_to_top) = 1
    /\ Len(last.choice.cards_to_bottom) = 1
    /\ Len(players[last.player].library) = 3
    /\ players[last.player].library[1] = last.choice.cards_to_top[1]
    /\ players[last.player].library[3] = last.choice.cards_to_bottom[1]
    /\ players[last.player].library # <<1, 2, 3>>

====
